---- MODULE Spec2Model ----
(***************************************************************************)
(* Agent State Memory Subsystem of Openswe2: bounded document cache,       *)
(* streaming message reducer, bounded strings / syntax-aware truncation,   *)
(* intelligent context manager and memory monitor.                         *)
(***************************************************************************)
EXTENDS Integers, Sequences, FiniteSets, TLC

\* ------------------------------------------------------------------------
\* Bounds of the exploration
\* ------------------------------------------------------------------------
MaxClock == 2
MaxAccess == 2
MaxEntriesBound == 3
MaxDrift == 100
MaxMessagesBound == 3
MaxMsgId == 6
MaxLines == 4
MaxHead == 2
MaxTicks == 2
LruMaxClock == 1
MaxItems == 2
MaxTreeLines == 2
MaxWrites == 2
MaxLongTicks == 10
MaxAtoms == 4
MaxMonitors == 3
MaxGlobalTicks == 4
MaxOutputLen == 5
MaxLimit == 3

\* ------------------------------------------------------------------------
\* State
\* ------------------------------------------------------------------------
VARIABLES
    cacheConfig,        \* BoundedDocumentCache.config
    cache,              \* BoundedDocumentCache.cache, a Map in insertion order
    currentSizeBytes,   \* BoundedDocumentCache.currentSizeBytes
    now,                \* the value Date.now() returns
    cacheOp,            \* the last cache call, what it did, and currentSizeBytes before it
    msgConfig,          \* StreamingMessageManager.config
    messages,           \* the message list held in the graph state
    pending,            \* the update the graph runtime delivers next
    nextMsgId,          \* the next fresh message id
    messageMetadata,    \* StreamingMessageManager.messageMetadata (its keys)
    lastReduce,         \* the last reduceMessages call: merged input and result
    txtInput,           \* the arguments of the next truncate / processString call
    truncResult,        \* the TruncationResult of the last truncate call
    boundedString,      \* the BoundedString of the last processString call
    validated,          \* the ValidationResult of the last validateAndFix call
    outputCall,         \* the last truncateOutput call and what it returned
    ctxMessages,        \* the message list handed to adaptPrompt
    ctxResult,          \* the last adaptPrompt call and the list it returned
    monitor,            \* the MemoryMonitor, with the calls it made to global.gc
    monClock,           \* the value Date.now() returned to the monitor last
    globalMonitoring,   \* the monitors startMemoryMonitoring created, and globalMonitor
    serConfig,          \* SmartSerializer.config
    serData,            \* the value handed to serialize
    serialized,         \* what serialize returned, once it was called
    deserialized,       \* what deserialize made of it, once it was called
    replayField,        \* the state field whose writes are replayed
    requireAvailable,   \* whether require() exists where the manager runs
    runA,               \* the field in one run: its value, and whether a write threw
    runB,               \* the field in a second run of the same writes
    writesDone          \* how many writes both runs have applied

cacheVars == <<cacheConfig, cache, currentSizeBytes, now, cacheOp>>
msgVars == <<msgConfig, messages, pending, nextMsgId, messageMetadata, lastReduce>>

txtVars == <<txtInput, truncResult, boundedString, validated, outputCall>>
ctxVars == <<ctxMessages, ctxResult>>
monVars == <<monitor, monClock, globalMonitoring>>
serVars == <<serConfig, serData, serialized, deserialized>>
replayVars == <<replayField, requireAvailable, runA, runB, writesDone>>

vars == <<cacheConfig, cache, currentSizeBytes, now, cacheOp,
          msgConfig, messages, pending, nextMsgId, messageMetadata, lastReduce,
          txtInput, truncResult, boundedString, validated, outputCall,
          ctxMessages, ctxResult, monitor, monClock, globalMonitoring,
          serConfig, serData, serialized, deserialized,
          replayField, requireAvailable, runA, runB, writesDone>>

\* ------------------------------------------------------------------------
\* Generic helpers
\* ------------------------------------------------------------------------
RECURSIVE SumSeq(_)
SumSeq(s) == IF s = <<>> THEN 0 ELSE Head(s) + SumSeq(Tail(s))

Min(a, b) == IF a <= b THEN a ELSE b
Max(a, b) == IF a >= b THEN a ELSE b

\* the element of a one-element set: The({ F(v) : v \in {e} }) is F(e) with e
\* computed once and named v
The(S) == CHOOSE x \in S : TRUE

\* ========================================================================
\* BoundedDocumentCache
\* ========================================================================
Urls == {"a", "b", "c"}

\* documents: a tag standing for the text and its UTF-8 byte length
Contents == { [tag |-> t, bytes |-> n] : t \in {"x"}, n \in {100, 200, 241} }

ByteLength(content) == content.bytes

\* DEFAULT_CACHE_CONFIG.maxEntries
DefaultMaxEntries == 1000

CacheConfigs ==
    { [maxSizeBytes |-> 300, maxEntries |-> m, compressionThreshold |-> 150,
       enableCompression |-> TRUE] : m \in 1..MaxEntriesBound }

\* compress() and decompress() return their argument as-is
compress(content) == content
decompress(content) == content

CacheHas(c, url) == \E i \in 1..Len(c) : c[i].url = url
CacheIndex(c, url) == CHOOSE i \in 1..Len(c) : c[i].url = url
CacheDelete(c, url) == SelectSeq(c, LAMBDA e : e.url # url)
\* Map.set: an existing key keeps its place, a new key goes last
CacheMapSet(c, entry) ==
    IF CacheHas(c, entry.url)
    THEN [c EXCEPT ![CacheIndex(c, entry.url)] = entry]
    ELSE Append(c, entry)

StoredBytes(c) == SumSeq([i \in 1..Len(c) |-> c[i].sizeBytes])

\* the comparator of the LRU sort: negative when a goes before b
LRUBefore_CountFirst(a, b) ==
    IF a.accessCount # b.accessCount
    THEN a.accessCount < b.accessCount
    ELSE a.lastAccessed < b.lastAccessed
LRUBefore(a, b) ==
    IF a.lastAccessed # b.lastAccessed
    THEN a.lastAccessed < b.lastAccessed
    ELSE a.accessCount < b.accessCount

\* Array.prototype.sort is stable: e goes before the first element it precedes
RECURSIVE LRUInsert(_, _)
LRUInsert(e, sorted) ==
    IF sorted = <<>> THEN <<e>>
    ELSE IF LRUBefore(e, Head(sorted)) THEN <<e>> \o sorted
    ELSE <<Head(sorted)>> \o LRUInsert(e, Tail(sorted))

RECURSIVE LRUSort(_)
LRUSort(c) ==
    IF c = <<>> THEN <<>>
    ELSE LRUInsert(c[Len(c)], LRUSort(SubSeq(c, 1, Len(c) - 1)))

\* the test that ends eviction
EnoughSpace_StrictlyBelow(cfg, cur, n, targetSize) ==
    cur < targetSize /\ n < cfg.maxEntries
EnoughSpace_OffByOne(cfg, cur, n, targetSize) ==
    cur <= targetSize /\ n <= cfg.maxEntries
EnoughSpace(cfg, cur, n, targetSize) ==
    cur <= targetSize /\ n < cfg.maxEntries

\* the eviction loop over the sorted entries
RECURSIVE EvictLoop(_, _, _, _, _)
EvictLoop(cfg, entries, c, cur, targetSize) ==
    IF entries = <<>> THEN [cache |-> c, cur |-> cur]
    ELSE IF EnoughSpace(cfg, cur, Len(c), targetSize) THEN [cache |-> c, cur |-> cur]
    ELSE EvictLoop(cfg, Tail(entries), CacheDelete(c, Head(entries).url),
                   cur - Head(entries).sizeBytes, targetSize)

evictToMakeSpace(cfg, c, cur, neededBytes) ==
    LET targetSize == cfg.maxSizeBytes - neededBytes
    IN  IF EnoughSpace(cfg, cur, Len(c), targetSize)
        THEN [cache |-> c, cur |-> cur]
        ELSE EvictLoop(cfg, LRUSort(c), c, cur, targetSize)

\* sizeBytes > maxSizeBytes * 0.8
TooLarge_AboveMax(cfg, sizeBytes) == sizeBytes > cfg.maxSizeBytes
TooLarge(cfg, sizeBytes) == 10 * sizeBytes > 8 * cfg.maxSizeBytes

CacheInit ==
    /\ cacheConfig \in CacheConfigs
    /\ cache = <<>>
    /\ currentSizeBytes = 0
    /\ now = 0
    /\ cacheOp = [op |-> "new", url |-> "", evicted |-> 0, overwrite |-> FALSE,
                 tracked |-> 0]

CacheSet(url, content) ==
    LET sizeBytes == ByteLength(content)
        compressed == sizeBytes > cacheConfig.compressionThreshold
                      /\ cacheConfig.enableCompression
        finalContent == IF compressed THEN compress(content) ELSE content
        finalSize == ByteLength(finalContent)
        overwrite == CacheHas(cache, url)
        cur1 == IF overwrite
                THEN currentSizeBytes - cache[CacheIndex(cache, url)].sizeBytes
                ELSE currentSizeBytes
        ev == evictToMakeSpace(cacheConfig, cache, cur1, finalSize)
        entry == [url |-> url, content |-> finalContent, compressed |-> compressed,
                  sizeBytes |-> finalSize, lastAccessed |-> now, accessCount |-> 1]
    IN  IF TooLarge(cacheConfig, sizeBytes)
        THEN /\ cacheOp' = [op |-> "rejected", url |-> url, evicted |-> 0,
                            overwrite |-> overwrite, tracked |-> currentSizeBytes]
             /\ UNCHANGED <<cacheConfig, cache, currentSizeBytes, now>>
        ELSE /\ StoredBytes(CacheMapSet(ev.cache, entry)) - (ev.cur + finalSize) <= MaxDrift
             /\ cache' = CacheMapSet(ev.cache, entry)
             /\ currentSizeBytes' = ev.cur + finalSize
             /\ cacheOp' = [op |-> "set", url |-> url,
                            evicted |-> Len(cache) - Len(ev.cache),
                            overwrite |-> overwrite, tracked |-> currentSizeBytes]
             /\ UNCHANGED <<cacheConfig, now>>

CacheGet(url) ==
    IF ~CacheHas(cache, url)
    THEN /\ cacheOp' = [op |-> "miss", url |-> url, evicted |-> 0, overwrite |-> FALSE,
                         tracked |-> currentSizeBytes]
         /\ UNCHANGED <<cacheConfig, cache, currentSizeBytes, now>>
    ELSE LET i == CacheIndex(cache, url)
         IN  /\ cache[i].accessCount < MaxAccess
             /\ cache' = [cache EXCEPT ![i].lastAccessed = now,
                                       ![i].accessCount = @ + 1]
             /\ cacheOp' = [op |-> "get", url |-> url, evicted |-> 0, overwrite |-> FALSE,
                             tracked |-> currentSizeBytes]
             /\ UNCHANGED <<cacheConfig, currentSizeBytes, now>>

CacheClear ==
    /\ cache' = <<>>
    /\ currentSizeBytes' = 0
    /\ cacheOp' = [op |-> "clear", url |-> "", evicted |-> 0, overwrite |-> FALSE,
                   tracked |-> currentSizeBytes]
    /\ UNCHANGED <<cacheConfig, now>>

\* Date.now() moves on between calls
ClockTick ==
    /\ now < MaxClock
    /\ now' = now + 1
    /\ UNCHANGED <<cacheConfig, cache, currentSizeBytes, cacheOp>>

DoCacheSet == \E url \in Urls, content \in Contents : CacheSet(url, content)
DoCacheGet == \E url \in Urls : CacheGet(url)

\* a cache of 300 bytes with the default maxEntries, four documents of 100 or
\* 101 bytes, and calls that share a reading of Date.now() or do not
LruUrls == {"a", "b", "c", "d"}
LruContents == { [tag |-> "x", bytes |-> n] : n \in {100, 101} }
LruConfig ==
    [maxSizeBytes |-> 300, maxEntries |-> DefaultMaxEntries, compressionThreshold |-> 150,
     enableCompression |-> TRUE]

LruInit ==
    /\ cacheConfig = LruConfig
    /\ cache = <<>>
    /\ currentSizeBytes = 0
    /\ now = 0
    /\ cacheOp = [op |-> "new", url |-> "", evicted |-> 0, overwrite |-> FALSE,
                 tracked |-> 0]

LruSet == \E url \in LruUrls, content \in LruContents : CacheSet(url, content)
LruGet == \E url \in LruUrls : CacheGet(url)
LruTick ==
    /\ now < LruMaxClock
    /\ now' = now + 1
    /\ UNCHANGED <<cacheConfig, cache, currentSizeBytes, cacheOp>>

\* ========================================================================
\* StreamingMessageManager
\* ========================================================================
\* what calculateMessageImportance and calculateMessageSize read of a message
MsgShapes ==
    { [kind |-> "human",  toolCalls |-> FALSE, mentionsError |-> FALSE,
       hasPattern |-> FALSE, contentBytes |-> 10, extraBytes |-> 2],
      [kind |-> "tool",   toolCalls |-> FALSE, mentionsError |-> FALSE,
       hasPattern |-> FALSE, contentBytes |-> 10, extraBytes |-> 2],
      [kind |-> "ai",     toolCalls |-> TRUE,  mentionsError |-> FALSE,
       hasPattern |-> FALSE, contentBytes |-> 10, extraBytes |-> 30],
      [kind |-> "system", toolCalls |-> FALSE, mentionsError |-> FALSE,
       hasPattern |-> FALSE, contentBytes |-> 10, extraBytes |-> 2] }

MkMsg(id, shape) ==
    [id |-> id, kind |-> shape.kind, toolCalls |-> shape.toolCalls,
     mentionsError |-> shape.mentionsError, hasPattern |-> shape.hasPattern,
     contentBytes |-> shape.contentBytes, extraBytes |-> shape.extraBytes]

MsgConfigs ==
    { [maxMessages |-> m, maxTotalSizeBytes |-> 100, preserveImportantMessages |-> p]
        : m \in 1..MaxMessagesBound, p \in BOOLEAN }

\* content bytes plus the JSON of additional_kwargs and tool_calls
calculateMessageSize(m) == m.contentBytes + m.extraBytes

calculateTotalSize(ms) ==
    SumSeq([i \in 1..Len(ms) |-> calculateMessageSize(ms[i])])

calculateMessageImportance(m) ==
    LET i0 == 5
        i1 == IF m.kind = "human" THEN 9 ELSE i0
        i2 == IF m.kind = "tool"
              THEN (IF m.mentionsError THEN 8 ELSE 6)
              ELSE i1
        i3 == IF m.kind = "ai" /\ m.toolCalls THEN 7 ELSE i2
    IN  IF m.hasPattern THEN Min(i3 + 2, 10) ELSE i3

IndexOfId(ms, id) == CHOOSE i \in 1..Len(ms) : ms[i].id = id
HasId(ms, id) == \E i \in 1..Len(ms) : ms[i].id = id

\* messagesStateReducer: a message whose id is present replaces it in place,
\* any other message is appended
RECURSIVE messagesStateReducer(_, _)
messagesStateReducer(left, right) ==
    IF right = <<>> THEN left
    ELSE LET m == Head(right)
             merged == IF HasId(left, m.id)
                       THEN [left EXCEPT ![IndexOfId(left, m.id)] = m]
                       ELSE Append(left, m)
         IN  messagesStateReducer(merged, Tail(right))

\* Array.prototype.slice(-n): slice(-0) is slice(0), the whole array
SliceLast(s, n) ==
    IF n = 0 THEN s ELSE SubSeq(s, Max(1, Len(s) - n + 1), Len(s))

\* Math.floor(maxMessages * 0.7)
RecentCount(cfg) == (cfg.maxMessages * 7) \div 10
ImportantCount(cfg) == cfg.maxMessages - RecentCount(cfg)

ImportanceThreshold == 7

IsImportant(m) == calculateMessageImportance(m) >= ImportanceThreshold

\* sort by messages.indexOf: insert m before the first element that comes
\* later in the original list
RECURSIVE InsertByIndex(_, _, _)
InsertByIndex(orig, m, sorted) ==
    IF sorted = <<>> THEN <<m>>
    ELSE IF IndexOfId(orig, m.id) < IndexOfId(orig, Head(sorted).id)
         THEN <<m>> \o sorted
         ELSE <<Head(sorted)>> \o InsertByIndex(orig, m, Tail(sorted))

RECURSIVE SortByIndex(_, _)
SortByIndex(orig, s) ==
    IF s = <<>> THEN <<>>
    ELSE InsertByIndex(orig, s[Len(s)], SortByIndex(orig, SubSeq(s, 1, Len(s) - 1)))

\* a window that drops the oldest message
createSlidingWindow_DropOldest(cfg, ms) == Tail(ms)
createSlidingWindow(cfg, ms) ==
    IF ~cfg.preserveImportantMessages
    THEN SliceLast(ms, cfg.maxMessages)
    ELSE LET important == SelectSeq(ms, IsImportant)
             regular == SelectSeq(ms, LAMBDA m : ~IsImportant(m))
             recentMessages == SliceLast(regular, RecentCount(cfg))
             importantMessages == SliceLast(important, ImportantCount(cfg))
         IN  SortByIndex(ms, importantMessages \o recentMessages)

WithinBounds(cfg, ms) ==
    /\ Len(ms) <= cfg.maxMessages
    /\ calculateTotalSize(ms) <= cfg.maxTotalSizeBytes

applyStreamingBounds(cfg, ms) ==
    IF WithinBounds(cfg, ms) THEN ms ELSE createSlidingWindow(cfg, ms)

\* updateMessageMetadata only adds keys, and only runs when bounds are applied
updateMessageMetadata(cfg, meta, ms) ==
    IF WithinBounds(cfg, ms) THEN meta
    ELSE meta \cup { ms[i].id : i \in 1..Len(ms) }

reduceMessages(cfg, currentMessages, newMessages) ==
    applyStreamingBounds(cfg, messagesStateReducer(currentMessages, newMessages))

MsgInit ==
    /\ msgConfig \in MsgConfigs
    /\ messages = <<>>
    /\ pending = <<>>
    /\ nextMsgId = 1
    /\ messageMetadata = {}
    /\ lastReduce = [n |-> 0, merged |-> <<>>, update |-> <<>>, out |-> <<>>]

MsgIdle ==
    /\ msgConfig = [maxMessages |-> 1, maxTotalSizeBytes |-> 100,
                    preserveImportantMessages |-> TRUE]
    /\ messages = <<>>
    /\ pending = <<>>
    /\ nextMsgId = 1
    /\ messageMetadata = {}
    /\ lastReduce = [n |-> 0, merged |-> <<>>, update |-> <<>>, out |-> <<>>]

\* an agent node emits a new message
EmitMessage(shape) ==
    /\ nextMsgId <= MaxMsgId
    /\ pending' = Append(pending, MkMsg(nextMsgId, shape))
    /\ nextMsgId' = nextMsgId + 1
    /\ UNCHANGED <<msgConfig, messages, messageMetadata, lastReduce>>

\* the graph runtime applies the pending update through the reducer
Reduce ==
    LET merged == messagesStateReducer(messages, pending)
        out == reduceMessages(msgConfig, messages, pending)
    IN  /\ messages' = out
        /\ messageMetadata' = updateMessageMetadata(msgConfig, messageMetadata, merged)
        /\ lastReduce' = [n |-> Min(lastReduce.n + 1, 1), merged |-> merged,
                          update |-> pending, out |-> out]
        /\ pending' = <<>>
        /\ UNCHANGED <<msgConfig, nextMsgId>>

DoEmitMessage == \E shape \in MsgShapes : EmitMessage(shape)

CacheIdle ==
    /\ cacheConfig = [maxSizeBytes |-> 300, maxEntries |-> 1,
                      compressionThreshold |-> 150, enableCompression |-> TRUE]
    /\ cache = <<>>
    /\ currentSizeBytes = 0
    /\ now = 0
    /\ cacheOp = [op |-> "new", url |-> "", evicted |-> 0, overwrite |-> FALSE,
                 tracked |-> 0]

\* ========================================================================
\* Texts: a text is a non-empty sequence of lines (what split('\n') gives),
\* a line a sequence of atoms; an atom stands for a run of characters
\* ========================================================================
W(s, n) == [t |-> "word", s |-> s, n |-> n]
Glyph == [t |-> "glyph", s |-> "", n |-> 3]
P(c) == [t |-> c, s |-> "", n |-> 1]
Str(s, n) == [t |-> "str", s |-> s, n |-> n]
UStr(s, n) == [t |-> "ustr", s |-> s, n |-> n]
Num(n) == [t |-> "num", s |-> "", n |-> n]
Ident(s, n) == [t |-> "ident", s |-> s, n |-> n]
Ws(n) == [t |-> "ws", s |-> "", n |-> n]

\* UTF-8 bytes of an atom: a string carries its quotes, a tree glyph is 3 bytes
AtomBytes(a) ==
    CASE a.t = "str" -> a.n + 2
      [] a.t = "ustr" -> a.n + 1
      [] OTHER -> a.n

LineBytes(line) == SumSeq([i \in 1..Len(line) |-> AtomBytes(line[i])])

\* Buffer.byteLength(content, 'utf8'): the lines and the newlines between them
ByteLen(text) ==
    SumSeq([i \in 1..Len(text) |-> LineBytes(text[i])]) + Len(text) - 1

\* number of decimal digits of n >= 0
RECURSIVE Digits(_)
Digits(n) == IF n < 10 THEN 1 ELSE 1 + Digits(n \div 10)

EmptyText == << <<>> >>

\* a.join('\n') followed by split('\n'): joining no lines gives the empty string
JoinLines(lines) == IF lines = <<>> THEN EmptyText ELSE lines

\* all atoms of a text in order
RECURSIVE FlatAtoms(_)
FlatAtoms(text) == IF text = <<>> THEN <<>> ELSE Head(text) \o FlatAtoms(Tail(text))

\* Array.prototype.slice(0, n), n >= 0
SliceFirst(s, n) == SubSeq(s, 1, Min(n, Len(s)))

\* ========================================================================
\* SyntaxAwareTruncator: generic and codebase-tree strategies
\* ========================================================================
TruncationResult(content, truncated, originalSize, syntaxValid, method) ==
    [content |-> content, truncated |-> truncated, originalSize |-> originalSize,
     finalSize |-> ByteLen(content), syntaxValid |-> syntaxValid,
     truncationMethod |-> method]

\* `\n// [TRUNCATED: ${n} lines omitted]\n`, three lines once joined
GenericMarker(n) ==
    << <<>>, <<W("// [TRUNCATED: lines omitted]", 30 + Digits(n))>>, <<>> >>

GenericCharsPerLine == 50

\* Math.floor(targetLines * 0.4)
GenericKeep(targetLines) == (targetLines * 4) \div 10

truncateGeneric(content, maxSize) ==
    LET lines == content
        targetLines == maxSize \div GenericCharsPerLine
        keepStart == GenericKeep(targetLines)
        keepEnd == GenericKeep(targetLines)
        result == SliceFirst(lines, keepStart)
                  \o GenericMarker(Len(lines) - targetLines)
                  \o SliceLast(lines, keepEnd)
    IN  IF Len(lines) <= targetLines
        THEN TruncationResult(content, FALSE, ByteLen(content), TRUE, "none")
        ELSE TruncationResult(result, TRUE, ByteLen(content), TRUE, "generic-safe")

\* (line.match(/[│├└]/g) || []).length
TreeDepth(line) == Cardinality({ i \in 1..Len(line) : line[i].t = "glyph" })

\* indices 0, step, 2*step, ... of lines, at most maxLines of them
RECURSIVE SampleFrom(_, _, _, _)
SampleFrom(lines, i, step, left) ==
    IF i > Len(lines) \/ left <= 0 THEN <<>>
    ELSE <<lines[i]>> \o SampleFrom(lines, i + step, step, left - 1)

sampleLines(lines, maxLines) ==
    IF Len(lines) <= maxLines THEN lines
    ELSE IF maxLines = 0 THEN <<>>
    ELSE SampleFrom(lines, 1, Len(lines) \div maxLines, maxLines)

MaxTreeDepth == 5

RECURSIVE TreeLevels(_, _, _, _)
TreeLevels(lines, depth, maxDepth, remainingLines) ==
    IF depth > Min(maxDepth, MaxTreeDepth) THEN <<>>
    ELSE LET linesAtDepth == SelectSeq(lines, LAMBDA l : TreeDepth(l) = depth)
             quota == remainingLines \div (maxDepth - depth + 1)
             sampled == sampleLines(linesAtDepth, quota)
             remaining == remainingLines - Len(sampled)
         IN  IF remaining <= 0 THEN sampled
             ELSE sampled \o TreeLevels(lines, depth + 1, maxDepth, remaining)

\* lines.indexOf(a): the first line equal to a
FirstIndexOf(lines, a) == CHOOSE i \in 1..Len(lines) :
    lines[i] = a /\ \A j \in 1..(i - 1) : lines[j] # a

RECURSIVE InsertByFirstIndex(_, _, _)
InsertByFirstIndex(lines, a, sorted) ==
    IF sorted = <<>> THEN <<a>>
    ELSE IF FirstIndexOf(lines, a) < FirstIndexOf(lines, Head(sorted))
         THEN <<a>> \o sorted
         ELSE <<Head(sorted)>> \o InsertByFirstIndex(lines, a, Tail(sorted))

RECURSIVE SortByFirstIndex(_, _)
SortByFirstIndex(lines, s) ==
    IF s = <<>> THEN <<>>
    ELSE InsertByFirstIndex(lines, s[Len(s)],
                            SortByFirstIndex(lines, SubSeq(s, 1, Len(s) - 1)))

preserveTreeStructure(lines, targetLines) ==
    LET maxDepth == CHOOSE d \in 0..50 :
                       /\ \E i \in 1..Len(lines) : TreeDepth(lines[i]) = d
                       /\ \A i \in 1..Len(lines) : TreeDepth(lines[i]) <= d
    IN  SortByFirstIndex(lines, TreeLevels(lines, 0, maxDepth, targetLines))

TreeCharsPerLine == 30

truncateCodebaseTree(content, maxSize) ==
    LET lines == content
        targetLines == maxSize \div TreeCharsPerLine
        result == JoinLines(preserveTreeStructure(lines, targetLines))
    IN  IF Len(lines) <= targetLines
        THEN truncateGeneric(content, maxSize)
        ELSE TruncationResult(result, TRUE, ByteLen(content), TRUE,
                              "tree-structure-preservation")

\* ========================================================================
\* JSON values, JSON.parse and JSON.stringify
\* ========================================================================
VNum(n) == [t |-> "num", s |-> "", n |-> n, keys |-> <<>>, items |-> <<>>]
VStr(s, n) == [t |-> "str", s |-> s, n |-> n, keys |-> <<>>, items |-> <<>>]
VArr(items) == [t |-> "arr", s |-> "", n |-> 0, keys |-> <<>>, items |-> items]
VObj(keys, items) == [t |-> "obj", s |-> "", n |-> 0, keys |-> keys, items |-> items]
Key(s, n) == [s |-> s, n |-> n]

IsSpace(a) == a.t \in {"ws", "nl"}
NL == [t |-> "nl", s |-> "", n |-> 1]

\* the characters of a text as one sequence, newlines included
RECURSIVE Flatten(_)
Flatten(text) ==
    IF Len(text) = 1 THEN text[1]
    ELSE text[1] \o <<NL>> \o Flatten(Tail(text))

\* split('\n') of a character sequence; line holds the characters before it
Unflatten(atoms, line) ==
    LET nls == SelectSeq([k \in 1..Len(atoms) |-> k], LAMBDA k : atoms[k].t = "nl")
        first(k) == IF k = 1 THEN 1 ELSE nls[k - 1] + 1
        last(k) == IF k = Len(nls) + 1 THEN Len(atoms) ELSE nls[k] - 1
        lines == [k \in 1..(Len(nls) + 1) |-> SubSeq(atoms, first(k), last(k))]
    IN  [lines EXCEPT ![1] = line \o @]

ParseFail == [ok |-> FALSE, val |-> VNum(0), rest |-> <<>>]
ParseOk(v, rest) == [ok |-> TRUE, val |-> v, rest |-> rest]

KeyIndex(keys, s) == IF \E i \in 1..Len(keys) : keys[i].s = s
                     THEN CHOOSE i \in 1..Len(keys) : keys[i].s = s
                     ELSE 0

RECURSIVE ParseValue(_)
RECURSIVE ParseElements(_, _)
RECURSIVE ParseMembers(_, _, _)

ParseValue(toks) ==
    IF toks = <<>> THEN ParseFail
    ELSE LET h == Head(toks)
             tl == Tail(toks)
         IN  CASE h.t = "num" -> ParseOk(VNum(h.n), tl)
               [] h.t = "str" -> ParseOk(VStr(h.s, h.n), tl)
               [] h.t = "[" ->
                    IF tl # <<>> /\ Head(tl).t = "]"
                    THEN ParseOk(VArr(<<>>), Tail(tl))
                    ELSE ParseElements(tl, <<>>)
               [] h.t = "{" ->
                    IF tl # <<>> /\ Head(tl).t = "}"
                    THEN ParseOk(VObj(<<>>, <<>>), Tail(tl))
                    ELSE ParseMembers(tl, <<>>, <<>>)
               [] OTHER -> ParseFail

ParseElements(toks, acc) ==
    LET r == ParseValue(toks)
    IN  IF ~r.ok \/ r.rest = <<>> THEN ParseFail
        ELSE IF Head(r.rest).t = "," THEN ParseElements(Tail(r.rest), Append(acc, r.val))
        ELSE IF Head(r.rest).t = "]" THEN ParseOk(VArr(Append(acc, r.val)), Tail(r.rest))
        ELSE ParseFail

ParseMembers(toks, keys, vals) ==
    IF Len(toks) < 3 \/ toks[1].t # "str" \/ toks[2].t # ":" THEN ParseFail
    ELSE LET k == Key(toks[1].s, toks[1].n)
             r == ParseValue(SubSeq(toks, 3, Len(toks)))
             at == KeyIndex(keys, k.s)
             keys2 == IF at = 0 THEN Append(keys, k) ELSE keys
             vals2 == IF at = 0 THEN Append(vals, r.val) ELSE [vals EXCEPT ![at] = r.val]
         IN  IF ~r.ok \/ r.rest = <<>> THEN ParseFail
             ELSE IF Head(r.rest).t = "," THEN ParseMembers(Tail(r.rest), keys2, vals2)
             ELSE IF Head(r.rest).t = "}" THEN ParseOk(VObj(keys2, vals2), Tail(r.rest))
             ELSE ParseFail

\* JSON.parse: [ok |-> FALSE] stands for the SyntaxError it throws
JSONParse(text) ==
    LET r == ParseValue(SelectSeq(Flatten(text), LAMBDA a : ~IsSpace(a)))
    IN  IF r.ok /\ r.rest = <<>> THEN r ELSE ParseFail

\* JSON.stringify(v): one line, no spaces
RECURSIVE StringifyAtoms(_)
RECURSIVE StringifyItems(_, _)
StringifyAtoms(v) ==
    CASE v.t = "num" -> <<Num(v.n)>>
      [] v.t = "str" -> <<Str(v.s, v.n)>>
      [] v.t = "arr" -> <<P("[")>> \o StringifyItems(v, 1) \o <<P("]")>>
      [] v.t = "obj" -> <<P("{")>> \o StringifyItems(v, 1) \o <<P("}")>>

StringifyItems(v, i) ==
    IF i > Len(v.items) THEN <<>>
    ELSE (IF v.t = "obj" THEN <<Str(v.keys[i].s, v.keys[i].n), P(":")>> ELSE <<>>)
         \o StringifyAtoms(v.items[i])
         \o (IF i < Len(v.items) THEN <<P(",")>> ELSE <<>>)
         \o StringifyItems(v, i + 1)

Stringify(v) == <<StringifyAtoms(v)>>

IndentLine(line) ==
    IF line # <<>> /\ Head(line).t = "ws"
    THEN <<Ws(Head(line).n + 2)>> \o Tail(line)
    ELSE <<Ws(2)>> \o line

\* JSON.stringify(v, null, 2): the lines of the indented form
RECURSIVE PrettyLines(_)
RECURSIVE PrettyItems(_, _)
PrettyLines(v) ==
    CASE v.t = "num" -> << <<Num(v.n)>> >>
      [] v.t = "str" -> << <<Str(v.s, v.n)>> >>
      [] v.t = "arr" ->
           IF v.items = <<>> THEN << <<P("["), P("]")>> >>
           ELSE << <<P("[")>> >> \o PrettyItems(v, 1) \o << <<P("]")>> >>
      [] v.t = "obj" ->
           IF v.items = <<>> THEN << <<P("{"), P("}")>> >>
           ELSE << <<P("{")>> >> \o PrettyItems(v, 1) \o << <<P("}")>> >>

PrettyItems(v, i) ==
    IF i > Len(v.items) THEN <<>>
    ELSE LET ls == PrettyLines(v.items[i])
             prefix == IF v.t = "obj"
                       THEN <<Str(v.keys[i].s, v.keys[i].n), P(":"), Ws(1)>>
                       ELSE <<>>
             withKey == [ls EXCEPT ![1] = prefix \o @]
             withComma == IF i < Len(v.items)
                          THEN [withKey EXCEPT ![Len(withKey)] = Append(@, P(","))]
                          ELSE withKey
         IN  [k \in 1..Len(withComma) |-> IndentLine(withComma[k])]
             \o PrettyItems(v, i + 1)

StringifyPretty(v) == PrettyLines(v)

\* ========================================================================
\* JSONValidator
\* ========================================================================
\* the first character after position i that is not whitespace, 0 if none
NextSolid(atoms, i) ==
    IF \E j \in (i + 1)..Len(atoms) : ~IsSpace(atoms[j])
    THEN CHOOSE j \in (i + 1)..Len(atoms) :
            ~IsSpace(atoms[j]) /\ \A k \in (i + 1)..(j - 1) : IsSpace(atoms[k])
    ELSE 0

PrevSolid(atoms, i) ==
    IF \E j \in 1..(i - 1) : ~IsSpace(atoms[j])
    THEN CHOOSE j \in 1..(i - 1) :
            ~IsSpace(atoms[j]) /\ \A k \in (j + 1)..(i - 1) : IsSpace(atoms[k])
    ELSE 0

\* the subsequence of atoms at the positions in kept
KeepAt(atoms, kept) ==
    LET idx == SelectSeq([k \in 1..Len(atoms) |-> k], LAMBDA k : k \in kept)
    IN  [k \in 1..Len(idx) |-> atoms[idx[k]]]

\* content.trim()
RECURSIVE TrimLeft(_)
TrimLeft(atoms) ==
    IF atoms # <<>> /\ IsSpace(Head(atoms)) THEN TrimLeft(Tail(atoms)) ELSE atoms
RECURSIVE TrimRight(_)
TrimRight(atoms) ==
    IF atoms # <<>> /\ IsSpace(atoms[Len(atoms)])
    THEN TrimRight(SubSeq(atoms, 1, Len(atoms) - 1))
    ELSE atoms
Trim(atoms) == TrimRight(TrimLeft(atoms))

CountOf(atoms, t) == Cardinality({ i \in 1..Len(atoms) : atoms[i].t = t })
LastIndexOf(atoms, t) ==
    IF \E i \in 1..Len(atoms) : atoms[i].t = t
    THEN CHOOSE i \in 1..Len(atoms) :
            atoms[i].t = t /\ \A j \in (i + 1)..Len(atoms) : atoms[j].t # t
    ELSE 0

RECURSIVE Repeat(_, _)
Repeat(a, n) == IF n <= 0 THEN <<>> ELSE <<a>> \o Repeat(a, n - 1)

RemoveAt(atoms, i) ==
    IF i = 0 THEN atoms
    ELSE SubSeq(atoms, 1, i - 1) \o SubSeq(atoms, i + 1, Len(atoms))

RECURSIVE RemoveLast(_, _, _)
RemoveLast(atoms, t, n) ==
    IF n <= 0 THEN atoms
    ELSE RemoveLast(RemoveAt(atoms, LastIndexOf(atoms, t)), t, n - 1)

\* .replace(/,(\s*[}\]])/g, '$1').replace(/,(\s*$)/g, '')
fixTrailingCommas(content) ==
    LET a == Flatten(content)
        BeforeCloser(i) == /\ a[i].t = ","
                           /\ NextSolid(a, i) # 0
                           /\ a[NextSolid(a, i)].t \in {"}", "]"}
        b == KeepAt(a, { i \in 1..Len(a) : ~BeforeCloser(i) })
        AtEnd(i) == /\ b[i].t = ","
                    /\ NextSolid(b, i) = 0
        c == KeepAt(b, { i \in 1..Len(b) : ~AtEnd(i) })
    IN  Unflatten(c, <<>>)

\* .replace(/([{,]\s*)([a-zA-Z_$][a-zA-Z0-9_$]*)\s*:/g, '$1"$2":')
fixMissingQuotes(content) ==
    LET a == Flatten(content)
        IsKey(i) == /\ a[i].t = "ident"
                    /\ PrevSolid(a, i) # 0
                    /\ a[PrevSolid(a, i)].t \in {"{", ","}
                    /\ NextSolid(a, i) # 0
                    /\ a[NextSolid(a, i)].t = ":"
        \* whitespace between the key and its colon is dropped
        Dropped(i) == /\ IsSpace(a[i])
                      /\ PrevSolid(a, i) # 0
                      /\ IsKey(PrevSolid(a, i))
        quoted == [i \in 1..Len(a) |-> IF IsKey(i) THEN Str(a[i].s, a[i].n) ELSE a[i]]
    IN  Unflatten(KeepAt(quoted, { i \in 1..Len(a) : ~Dropped(i) }), <<>>)

fixUnbalancedBraces(content) ==
    LET a == Flatten(content)
        openBraces == CountOf(a, "{")
        closeBraces == CountOf(a, "}")
        openBrackets == CountOf(a, "[")
        closeBrackets == CountOf(a, "]")
        f1 == a \o Repeat(P("}"), openBraces - closeBraces)
        f2 == f1 \o Repeat(P("]"), openBrackets - closeBrackets)
        f3 == RemoveLast(f2, "}", closeBraces - openBraces)
        f4 == RemoveLast(f3, "]", closeBrackets - openBrackets)
    IN  Unflatten(f4, <<>>)

\* a '"' character: both quotes of a string, the opening quote of an open one
HasQuote(atoms) == \E i \in 1..Len(atoms) : atoms[i].t \in {"str", "ustr"}
EndsWithQuote(atoms) ==
    /\ atoms # <<>>
    /\ \/ atoms[Len(atoms)].t = "str"
       \/ atoms[Len(atoms)].t = "ustr" /\ atoms[Len(atoms)].n = 0

\* fixed += '"'
AppendQuote(atoms) ==
    IF atoms # <<>> /\ atoms[Len(atoms)].t = "ustr"
    THEN [atoms EXCEPT ![Len(atoms)] = Str(@.s, @.n)]
    ELSE Append(atoms, UStr("", 0))

fixTruncatedString(content) ==
    LET fixed == Trim(Flatten(content))
    IN  Unflatten(IF ~EndsWithQuote(fixed) /\ HasQuote(fixed)
                  THEN AppendQuote(fixed)
                  ELSE fixed, <<>>)

\* a last repair that gives the content back
createMinimalValidJSON_Echo(content) == content

MinimalObjectJSON ==
    << <<P("{"), Str("data", 4), P(":"), Ws(1), Str("[Original JSON was malformed and truncated]", 43),
         P(","), Ws(1), Str("error", 5), P(":"), Ws(1), Str("truncated", 9), P("}")>> >>
MinimalArrayJSON ==
    << <<P("["), Str("[Original array was malformed and truncated]", 44), P("]")>> >>
MinimalStringJSON ==
    << <<Str("[Original content was not valid JSON]", 37)>> >>

createMinimalValidJSON(content) ==
    LET trimmed == Trim(Flatten(content))
    IN  IF trimmed # <<>> /\ Head(trimmed).t = "{" THEN MinimalObjectJSON
        ELSE IF trimmed # <<>> /\ Head(trimmed).t = "[" THEN MinimalArrayJSON
        ELSE MinimalStringJSON

ValidationResult(valid, hasFixed, fixedContent, repair) ==
    [valid |-> valid, hasFixed |-> hasFixed, fixedContent |-> fixedContent,
     repair |-> repair]

\* the flag attemptRepair sets on a successful repair
RepairedValid == TRUE

RepairNames ==
    <<"fixTrailingCommas", "fixMissingQuotes", "fixUnbalancedBraces",
      "fixTruncatedString", "createMinimalValidJSON">>

\* the loop over the repairs: the first one whose result JSON.parse accepts
RECURSIVE FirstRepair(_, _)
FirstRepair(repaired, i) ==
    IF i > Len(repaired) THEN ValidationResult(FALSE, FALSE, EmptyText, "none")
    ELSE IF JSONParse(repaired[i]).ok
    THEN ValidationResult(RepairedValid, TRUE, repaired[i], RepairNames[i])
    ELSE FirstRepair(repaired, i + 1)

attemptRepair(content) ==
    The({ FirstRepair(repaired, 1) :
          repaired \in { <<fixTrailingCommas(content), fixMissingQuotes(content),
                           fixUnbalancedBraces(content), fixTruncatedString(content),
                           createMinimalValidJSON(content)>> } })

validateAndFix(content) ==
    IF JSONParse(content).ok
    THEN ValidationResult(TRUE, FALSE, EmptyText, "none")
    ELSE attemptRepair(content)

LastSolidType(line) ==
    LET t == TrimRight(line) IN IF t = <<>> THEN "" ELSE t[Len(t)].t

\* the truncation-point scans: the number of leading lines to keep, of which the
\* last ends an element; the byte offset is the size of these lines with their
\* newlines
RECURSIVE TruncationScan(_, _, _, _, _, _, _)
TruncationScan(lines, i, currentSize, braceDepth, safeLines, maxSize, isObject) ==
    IF i > Len(lines) THEN safeLines
    ELSE LET size == currentSize + LineBytes(lines[i]) + 1
             depth == braceDepth + CountOf(lines[i], "{") - CountOf(lines[i], "}")
             closer == IF isObject THEN "}" ELSE "]"
             safe == /\ LastSolidType(lines[i]) \in {",", closer}
                     /\ isObject => depth >= 0
         IN  IF 10 * size > 8 * maxSize THEN safeLines
             ELSE TruncationScan(lines, i + 1, size, depth,
                                 IF safe THEN i ELSE safeLines, maxSize, isObject)

findArrayTruncationPoint(content, maxSize) ==
    TruncationScan(content, 1, 0, 0, 0, maxSize, FALSE)
findObjectTruncationPoint(content, maxSize) ==
    TruncationScan(content, 1, 0, 0, 0, maxSize, TRUE)

ValidateParsed(content, maxSize, parsed) ==
    IF ~parsed.ok THEN [canTruncate |-> FALSE, point |-> 0]
    ELSE IF parsed.val.t = "arr"
         THEN [canTruncate |-> TRUE, point |-> findArrayTruncationPoint(content, maxSize)]
    ELSE IF parsed.val.t = "obj"
         THEN [canTruncate |-> TRUE, point |-> findObjectTruncationPoint(content, maxSize)]
    ELSE [canTruncate |-> FALSE, point |-> 0]

validateForTruncation(content, maxSize) ==
    The({ ValidateParsed(content, maxSize, parsed) : parsed \in {JSONParse(content)} })

\* content.substring(0, point) for a point after the first k lines
SubstringLines(content, k) ==
    IF k >= Len(content) THEN content ELSE SliceFirst(content, k) \o EmptyText

MalformedErrorJSON(content0) ==
    << <<P("{"), Str("error", 5), P(":"), Ws(1),
         Str("JSON was malformed and could not be repaired", 44), P(","), Ws(1),
         Str("original_size", 13), P(":"), Ws(1),
         Num(Digits(ByteLen(content0))), P("}")>> >>

\* the end of safeJSONTruncate: the truncated text if it validates
SafeTruncateChecked(content, truncated, finalValidation) ==
    IF finalValidation.valid
    THEN (IF finalValidation.hasFixed THEN finalValidation.fixedContent ELSE truncated)
    ELSE content

SafeTruncateAt(content, truncated) ==
    The({ SafeTruncateChecked(content, truncated, finalValidation) :
          finalValidation \in {validateAndFix(truncated)} })

\* safeJSONTruncate from validateForTruncation on; content is the repaired text
\* if there is one
SafeTruncateInfo(content, info) ==
    IF ~info.canTruncate THEN content
    ELSE IF info.point # 0
    THEN The({ SafeTruncateAt(content, truncated) :
               truncated \in {SubstringLines(content, info.point)} })
    ELSE content

SafeTruncateWorking(content, maxSize) ==
    The({ SafeTruncateInfo(content, info) :
          info \in {validateForTruncation(content, maxSize)} })

SafeTruncateValidated(content0, maxSize, validation) ==
    IF ~validation.valid /\ ~validation.hasFixed
    THEN MalformedErrorJSON(content0)
    ELSE The({ SafeTruncateWorking(content, maxSize) :
               content \in { IF ~validation.valid THEN validation.fixedContent
                             ELSE content0 } })

safeJSONTruncate(content0, maxSize) ==
    The({ SafeTruncateValidated(content0, maxSize, validation) :
          validation \in {validateAndFix(content0)} })

\* ========================================================================
\* SyntaxAwareTruncator: JSON strategy
\* ========================================================================
MaxArrayItems == 10
MaxJSONStringLength == 1000
MinimalStringLength == 100
MinimalKeys == 3

RECURSIVE truncateArrays(_)
truncateArrays(obj) ==
    CASE obj.t = "arr" ->
           IF Len(obj.items) > MaxArrayItems
           THEN VArr(Append(SliceFirst(obj.items, MaxArrayItems),
                            VStr("[... more items truncated]",
                                 27 + Digits(Len(obj.items) - MaxArrayItems))))
           ELSE VArr([i \in 1..Len(obj.items) |-> truncateArrays(obj.items[i])])
      [] obj.t = "obj" ->
           VObj(obj.keys, [i \in 1..Len(obj.items) |-> truncateArrays(obj.items[i])])
      [] OTHER -> obj

\* key names the model uses that contain one of the unimportant words
UnimportantKeys ==
    {"debug", "trace", "verbose", "metadata", "stats", "cache", "internal",
     "private", "_id", "timestamp", "created", "updated", "logs", "history",
     "temp", "tmp", "deprecated"}

RECURSIVE removeUnimportantProps(_)
removeUnimportantProps(obj) ==
    CASE obj.t = "arr" ->
           VArr([i \in 1..Len(obj.items) |-> removeUnimportantProps(obj.items[i])])
      [] obj.t = "obj" ->
           LET kept == { i \in 1..Len(obj.keys) : obj.keys[i].s \notin UnimportantKeys }
               idx == KeepAt([i \in 1..Len(obj.keys) |-> i], kept)
           IN  VObj([k \in 1..Len(idx) |-> obj.keys[idx[k]]],
                    [k \in 1..Len(idx) |-> removeUnimportantProps(obj.items[idx[k]])])
      [] OTHER -> obj

RECURSIVE truncateJSONStrings(_)
truncateJSONStrings(obj) ==
    CASE obj.t = "str" ->
           IF obj.n > MaxJSONStringLength
           THEN VStr(obj.s, (MaxJSONStringLength - 20) + 14)
           ELSE obj
      [] obj.t = "arr" ->
           VArr([i \in 1..Len(obj.items) |-> truncateJSONStrings(obj.items[i])])
      [] obj.t = "obj" ->
           VObj(obj.keys, [i \in 1..Len(obj.items) |-> truncateJSONStrings(obj.items[i])])
      [] OTHER -> obj

RECURSIVE createMinimalJSON(_)
createMinimalJSON(obj) ==
    CASE obj.t = "arr" ->
           IF Len(obj.items) > 0
           THEN VArr(<<obj.items[1],
                       VStr("[... items truncated for size]",
                            31 + Digits(Len(obj.items) - 1))>>)
           ELSE VArr(<<>>)
      [] obj.t = "obj" ->
           LET n == Min(Len(obj.keys), MinimalKeys)
               value(i) ==
                   LET v == obj.items[i]
                   IN  IF v.t = "str"
                       THEN (IF v.n > MinimalStringLength
                             THEN VStr(v.s, MinimalStringLength + 3) ELSE v)
                       ELSE IF v.t \in {"arr", "obj"} THEN createMinimalJSON(v)
                       ELSE v
               more == Len(obj.keys) - MinimalKeys
           IN  IF Len(obj.keys) = 0 THEN VObj(<<>>, <<>>)
               ELSE VObj(SliceFirst(obj.keys, n)
                           \o (IF more > 0 THEN <<Key("...", 3)>> ELSE <<>>),
                         [i \in 1..n |-> value(i)]
                           \o (IF more > 0
                               THEN <<VStr("more properties truncated", 26 + Digits(more))>>
                               ELSE <<>>))
      [] OTHER -> obj

JSONResult(content, originalSize, finalSize, method) ==
    [content |-> content, truncated |-> TRUE, originalSize |-> originalSize,
     finalSize |-> finalSize, syntaxValid |-> TRUE, truncationMethod |-> method]

AttemptMethods == <<"array-truncation", "property-removal", "string-truncation">>

MinimalResult(obj, minimal) ==
    JSONResult(minimal, ByteLen(Stringify(obj)), ByteLen(minimal), "minimal-json")

\* the loop over the attempts, then the minimal fallback
RECURSIVE FirstAttempt(_, _, _, _)
FirstAttempt(attempts, i, obj, maxSize) ==
    IF i > Len(attempts)
    THEN The({ MinimalResult(obj, minimal) :
               minimal \in {StringifyPretty(createMinimalJSON(obj))} })
    ELSE IF ByteLen(attempts[i]) <= maxSize
    THEN JSONResult(attempts[i], ByteLen(Stringify(obj)), ByteLen(attempts[i]),
                    AttemptMethods[i])
    ELSE FirstAttempt(attempts, i + 1, obj, maxSize)

truncateJSONObject(obj, maxSize) ==
    The({ FirstAttempt(attempts, 1, obj, maxSize) :
          attempts \in { <<StringifyPretty(truncateArrays(obj)),
                           StringifyPretty(removeUnimportantProps(obj)),
                           StringifyPretty(truncateJSONStrings(obj))>> } })

\* the catch branch of truncateJSON
SafeJSONFallback(content, safeResult) ==
    JSONResult(safeResult, ByteLen(content), ByteLen(safeResult), "safe-json-fallback")

\* the final validation of the result in truncateJSON
WithFinalValidation(result, finalValidation) ==
    IF ~finalValidation.valid /\ finalValidation.hasFixed
    THEN [result EXCEPT !.content = finalValidation.fixedContent,
                        !.truncationMethod = "with-repair"]
    ELSE result

TruncateParsedResult(result) ==
    The({ WithFinalValidation(result, finalValidation) :
          finalValidation \in {validateAndFix(result.content)} })

\* the try block of truncateJSON
TruncateParsed(content, workingContent, maxSize, parsed) ==
    IF parsed.ok
    THEN The({ TruncateParsedResult(result) :
               result \in {truncateJSONObject(parsed.val, maxSize)} })
    ELSE The({ SafeJSONFallback(content, safeResult) :
               safeResult \in {safeJSONTruncate(workingContent, maxSize)} })

TruncateWorking(content, workingContent, maxSize) ==
    The({ TruncateParsed(content, workingContent, maxSize, parsed) :
          parsed \in {JSONParse(workingContent)} })

TruncateValidated(content, maxSize, validation) ==
    IF ~validation.valid /\ ~validation.hasFixed
    THEN truncateGeneric(content, maxSize)
    ELSE The({ TruncateWorking(content, workingContent, maxSize) :
               workingContent \in { IF ~validation.valid THEN validation.fixedContent
                                    ELSE content } })

truncateJSON(content, maxSize) ==
    The({ TruncateValidated(content, maxSize, validation) :
          validation \in {validateAndFix(content)} })

\* ========================================================================
\* SyntaxAwareTruncator: code strategy
\* ========================================================================
\* a declaration head such as `export function f()`: s lists its keywords
Decl(s, n) == [t |-> "decl", s |-> s, n |-> n]

DeclWords(s) ==
    CASE s = "import" -> {"import"}
      [] s = "function" -> {"function"}
      [] s = "export function" -> {"export", "function"}
      [] s = "export default class" -> {"export", "default", "class"}
      [] s = "export interface" -> {"export", "interface"}
      [] s = "const" -> {"const"}
      [] s = "if" -> {"if"}
      [] OTHER -> {}

\* line.includes(word)
LineIncludes(line, word) ==
    \E i \in 1..Len(line) : line[i].t = "decl" /\ word \in DeclWords(line[i].s)

isImportantLineStart(line) ==
    LET trimmed == Trim(line)
    IN  /\ trimmed # <<>>
        /\ Head(trimmed).t = "decl"
        /\ DeclWords(Head(trimmed).s)
              \cap {"function", "class", "interface", "type", "const", "import"} # {}

getBlockType(line) ==
    IF LineIncludes(line, "function") THEN "function"
    ELSE IF LineIncludes(line, "class") THEN "class"
    ELSE IF LineIncludes(line, "interface") THEN "interface"
    ELSE IF LineIncludes(line, "type") THEN "type"
    ELSE IF LineIncludes(line, "import") THEN "import"
    ELSE IF LineIncludes(line, "const") THEN "const"
    ELSE "other"

getBlockImportance(line) ==
    5 + (IF LineIncludes(line, "export") THEN 3 ELSE 0)
      + (IF LineIncludes(line, "default") THEN 2 ELSE 0)
      + (IF LineIncludes(line, "class") THEN 2 ELSE 0)
      + (IF LineIncludes(line, "interface") THEN 2 ELSE 0)
      + (IF LineIncludes(line, "function") THEN 1 ELSE 0)
      + (IF LineIncludes(line, "import") THEN 1 ELSE 0)

Block(start, end, importance, type) ==
    [start |-> start, end |-> end, importance |-> importance, type |-> type]

NoBlock == Block(0, 0, 0, "none")

\* the scan of extractImportantCodeBlocks; lines are numbered from 1
RECURSIVE ScanBlocks(_, _, _, _, _)
ScanBlocks(lines, i, currentBlock, braceCount, blocks) ==
    IF i > Len(lines)
    THEN (IF currentBlock # NoBlock
          THEN Append(blocks, [currentBlock EXCEPT !.end = Len(lines)])
          ELSE blocks)
    ELSE LET line == Trim(lines[i])
             starts == isImportantLineStart(line)
             blocks1 == IF starts /\ currentBlock # NoBlock
                        THEN Append(blocks, [currentBlock EXCEPT !.end = i - 1])
                        ELSE blocks
             current1 == IF starts
                         THEN Block(i, 0, getBlockImportance(line), getBlockType(line))
                         ELSE currentBlock
             count0 == IF starts THEN 0 ELSE braceCount
             count1 == IF current1 # NoBlock
                       THEN count0 + CountOf(line, "{") - CountOf(line, "}")
                       ELSE count0
             closes == current1 # NoBlock /\ count1 <= 0 /\ CountOf(line, "}") > 0
         IN  IF closes
             THEN ScanBlocks(lines, i + 1, NoBlock, count1,
                             Append(blocks1, [current1 EXCEPT !.end = i]))
             ELSE ScanBlocks(lines, i + 1, current1, count1, blocks1)

RECURSIVE InsertByImportance(_, _)
InsertByImportance(b, sorted) ==
    IF sorted = <<>> THEN <<b>>
    ELSE IF b.importance > Head(sorted).importance THEN <<b>> \o sorted
    ELSE <<Head(sorted)>> \o InsertByImportance(b, Tail(sorted))

RECURSIVE SortByImportance(_)
SortByImportance(blocks) ==
    IF blocks = <<>> THEN <<>>
    ELSE InsertByImportance(blocks[Len(blocks)],
                            SortByImportance(SubSeq(blocks, 1, Len(blocks) - 1)))

extractImportantCodeBlocks(lines) ==
    SortByImportance(ScanBlocks(lines, 1, NoBlock, 0, <<>>))

BlockSize(b) == b.end - b.start + 1

TypeNameLength(type) ==
    CASE type = "function" -> 8
      [] type = "class" -> 5
      [] type = "interface" -> 9
      [] type = "type" -> 4
      [] type = "import" -> 6
      [] type = "const" -> 5
      [] OTHER -> 5

\* the import stubs: `// Lines a-b` while the imports stay within 10% of the target
RECURSIVE ImportStubs(_, _, _)
ImportStubs(blocks, usedLines, targetLines) ==
    IF blocks = <<>> THEN [lines |-> <<>>, used |-> usedLines]
    ELSE LET b == Head(blocks)
             fits == 10 * (usedLines + BlockSize(b)) <= targetLines
             rest == ImportStubs(Tail(blocks),
                                 IF fits THEN usedLines + BlockSize(b) ELSE usedLines,
                                 targetLines)
         IN  IF fits
             THEN [lines |-> << <<W("// Lines", 10 + Digits(b.start) + Digits(b.end))>> >>
                             \o rest.lines,
                   used |-> rest.used]
             ELSE rest

\* the stubs of the other blocks: an empty line, `// TYPE: Lines a-b` and
\* `// [Block truncated for size - original had n lines]`
RECURSIVE BlockStubs(_, _, _)
BlockStubs(blocks, usedLines, targetLines) ==
    IF blocks = <<>> THEN <<>>
    ELSE LET b == Head(blocks)
             fits == usedLines + BlockSize(b) <= targetLines
         IN  IF fits
             THEN << <<>>,
                     <<W("// TYPE: Lines", 12 + TypeNameLength(b.type)
                                           + Digits(b.start) + Digits(b.end))>>,
                     <<W("// [Block truncated for size]", 51 + Digits(BlockSize(b)))>> >>
                  \o BlockStubs(Tail(blocks), usedLines + 3, targetLines)
             ELSE BlockStubs(Tail(blocks), usedLines, targetLines)

buildTruncatedCode(blocks, targetLines) ==
    LET imports == ImportStubs(SelectSeq(blocks, LAMBDA b : b.type = "import"),
                               0, targetLines)
        others == BlockStubs(SelectSeq(blocks, LAMBDA b : b.type # "import"),
                             imports.used, targetLines)
    IN  imports.lines \o others
        \o << <<>>, <<W("// [TRUNCATED: Original file had many more lines]", 49)>> >>

CodeCharsPerLine == 50

CodeResult(content, result) ==
    TruncationResult(result, TRUE, ByteLen(content), TRUE, "code-block-preservation")

TruncateBlocks(content, blocks, targetLines) ==
    The({ CodeResult(content, result) :
          result \in {buildTruncatedCode(blocks, targetLines)} })

truncateCode(content, maxSize) ==
    IF Len(content) <= maxSize \div CodeCharsPerLine
    THEN truncateGeneric(content, maxSize)
    ELSE The({ TruncateBlocks(content, blocks, maxSize \div CodeCharsPerLine) :
               blocks \in {extractImportantCodeBlocks(content)} })

\* ========================================================================
\* SyntaxAwareTruncator.truncate and smartTruncate
\* ========================================================================
TextIncludesWord(content, words) ==
    \E i \in 1..Len(content) : \E w \in words : LineIncludes(content[i], w)

\* SyntaxAwareTruncator.hasCodePatterns
TruncatorCodeWords ==
    {"function", "class", "interface", "export", "import", "const", "let", "var",
     "=>", "if", "for", "while"}

StartsWith(content, t) ==
    LET trimmed == Trim(Flatten(content)) IN trimmed # <<>> /\ Head(trimmed).t = t
EndsWith(content, t) ==
    LET trimmed == Trim(Flatten(content)) IN trimmed # <<>> /\ trimmed[Len(trimmed)].t = t
IncludesAtom(content, t) == \E i \in 1..Len(content) : CountOf(content[i], t) > 0

detectContentType(content) ==
    IF /\ \/ StartsWith(content, "{") /\ EndsWith(content, "}")
          \/ StartsWith(content, "[") /\ EndsWith(content, "]")
       /\ JSONParse(content).ok
    THEN "json"
    ELSE IF TextIncludesWord(content, TruncatorCodeWords)
    THEN (IF TextIncludesWord(content, {"interface", "export"})
          THEN "typescript" ELSE "javascript")
    ELSE IF StartsWith(content, "<") /\ IncludesAtom(content, ">")
    THEN (IF IncludesAtom(content, "doctype") THEN "html" ELSE "xml")
    ELSE IF IncludesAtom(content, "glyph") THEN "codebase-tree"
    ELSE "text"

truncateMarkup(content, maxSize) == truncateGeneric(content, maxSize)

\* contentType "" stands for an omitted argument
TruncateAs(content, maxSize, detectedType) ==
    CASE detectedType = "json" -> truncateJSON(content, maxSize)
      [] detectedType \in {"javascript", "typescript"} -> truncateCode(content, maxSize)
      [] detectedType \in {"xml", "html"} -> truncateMarkup(content, maxSize)
      [] detectedType = "codebase-tree" -> truncateCodebaseTree(content, maxSize)
      [] OTHER -> truncateGeneric(content, maxSize)

truncate(content, maxSize, contentType) ==
    IF ByteLen(content) <= maxSize
    THEN TruncationResult(content, FALSE, ByteLen(content), TRUE, "none")
    ELSE The({ TruncateAs(content, maxSize, detectedType) :
               detectedType \in { IF contentType # "" THEN contentType
                                  ELSE detectContentType(content) } })

smartTruncate(content, maxSize, contentType) ==
    truncate(content, maxSize, contentType).content

\* ========================================================================
\* BoundedStringManager
\* ========================================================================
\* names of tree entries that match one of the importantPatterns
ImportantFileNames == {"a.ts", "package.json", "README", "Dockerfile", ".env", "config"}
NoteKeywords == {"task:", "plan:", "error:", "completed:", "todo:", "issue:", "fix:"}
GenericKeywords == {"error", "warning", "todo", "fixme", "important", "critical"}

LineHasName(line, names) == \E i \in 1..Len(line) : line[i].s \in names

\* trees above 10 MB go to the giant-codebase summarizer
GiantTreeBytes == 10 * 1024 * 1024
MaxSummaryTreeLines == 2000

summarizeCodebaseTree(tree) ==
    LET lines == tree
        importantLines == SelectSeq(lines, LAMBDA l : LineHasName(l, ImportantFileNames))
        maxLines == Min(Len(importantLines), MaxSummaryTreeLines)
        header == <<P("["), W("SUMMARIZED CODEBASE TREE - Original: lines", 43 + Digits(Len(lines))),
                    P(","), Ws(1), Ident("Kept", 4), P(":"),
                    W(" important files", 17 + Digits(maxLines)), P("]")>>
    IN  <<header>> \o JoinLines(SliceFirst(importantLines, maxLines))

\* notes.split('\n\n')
RECURSIVE SplitSections(_)
SplitSections(lines) ==
    IF \E i \in 1..(Len(lines) - 2) : lines[i + 1] = <<>>
    THEN LET i == CHOOSE k \in 1..(Len(lines) - 2) :
                     lines[k + 1] = <<>> /\ \A j \in 1..(k - 1) : lines[j + 1] # <<>>
         IN  <<SubSeq(lines, 1, i)>> \o SplitSections(SubSeq(lines, i + 2, Len(lines)))
    ELSE <<lines>>

\* sections.join('\n\n')
RECURSIVE JoinSections(_)
JoinSections(sections) ==
    IF sections = <<>> THEN EmptyText
    ELSE IF Len(sections) = 1 THEN sections[1]
    ELSE sections[1] \o << <<>> >> \o JoinSections(Tail(sections))

MaxNoteSections == 20

summarizeNotes(notes) ==
    LET sections == SplitSections(notes)
        importantSections ==
            SelectSeq(sections, LAMBDA sec :
                \E i \in 1..Len(sec) : LineHasName(sec[i], NoteKeywords))
        kept == Min(Len(importantSections), MaxNoteSections)
        header == <<P("["), W("SUMMARIZED NOTES - Original: sections", 38 + Digits(Len(sections))),
                    P(","), Ws(1), Ident("Kept", 4), P(":"),
                    W(" key sections", 14 + Digits(kept)), P("]")>>
    IN  <<header, <<>> >>
        \o JoinSections(IF importantSections = <<>> THEN <<>>
                        ELSE SliceLast(importantSections, MaxNoteSections))

SummaryEdgeLines == 50
SummaryKeyLines == 100

genericSummarize(content) ==
    LET lines == content
        importantLines == SelectSeq(lines, LAMBDA l : LineHasName(l, GenericKeywords))
        firstLines == SliceFirst(lines, SummaryEdgeLines)
        lastLines == SliceLast(lines, SummaryEdgeLines)
        keyLines == SliceFirst(importantLines, SummaryKeyLines)
        header == <<P("["), W("SUMMARIZED CONTENT - Original: lines", 37 + Digits(Len(lines))),
                    P("]")>>
    IN  <<header, <<>> >>
        \o << <<W("--- BEGINNING ---", 17)>> >> \o firstLines
        \o << <<W("--- IMPORTANT EXCERPTS ---", 26)>> >> \o keyLines
        \o << <<W("--- END ---", 11)>> >> \o lastLines

summarizeContent(content, fieldName) ==
    IF fieldName = "codebaseTree" THEN summarizeCodebaseTree(content)
    ELSE IF fieldName = "contextGatheringNotes" THEN summarizeNotes(content)
    ELSE genericSummarize(content)

\* compressContent() and decompressContent() return their argument as-is
compressContent(content) == content
decompressContent(content) == content

\* BoundedStringManager.hasCodePatterns
ManagerCodeWords == {"function", "class", "interface", "export", "import", "const", "=>"}

truncateContent(content, maxBytes, fieldName) ==
    IF ByteLen(content) <= maxBytes THEN content
    ELSE The({ smartTruncate(content, maxBytes, contentType) :
               contentType \in {
                   IF fieldName = "codebaseTree" THEN "codebase-tree"
                   ELSE IF StartsWith(content, "{") \/ StartsWith(content, "[") THEN "json"
                   ELSE IF TextIncludesWord(content, ManagerCodeWords) THEN "javascript"
                   ELSE "" } })

\* Math.floor(maxSizeBytes * 0.8)
TruncateLength(cfg) == (cfg.maxSizeBytes * 8) \div 10

BoundedString(content, compressed, summarized, originalSize) ==
    [content |-> content, compressed |-> compressed, summarized |-> summarized,
     originalSizeBytes |-> originalSize, currentSizeBytes |-> ByteLen(content)]

\* step 3 of processString: truncate if still too large
ProcessTruncate(cfg, content, fieldName, originalSize, summarized, compressed) ==
    The({ BoundedString(processed, compressed, summarized, originalSize) :
          processed \in { IF ByteLen(content) > cfg.maxSizeBytes
                          THEN truncateContent(content, TruncateLength(cfg), fieldName)
                          ELSE content } })

\* step 2 of processString: compress if still large
ProcessCompress(cfg, content, fieldName, originalSize, summarized) ==
    The({ ProcessTruncate(cfg, processed, fieldName, originalSize, summarized,
                          ByteLen(content) > cfg.compressionThreshold
                              /\ cfg.enableCompression) :
          processed \in { IF ByteLen(content) > cfg.compressionThreshold
                               /\ cfg.enableCompression
                          THEN compressContent(content)
                          ELSE content } })

\* step 1 of processString: summarize if too large
processString(cfg, content, fieldName) ==
    The({ ProcessCompress(cfg, processed, fieldName, ByteLen(content),
                          ByteLen(content) > cfg.summarizationThreshold
                              /\ cfg.enableSummarization) :
          processed \in { IF ByteLen(content) > cfg.summarizationThreshold
                               /\ cfg.enableSummarization
                          THEN summarizeContent(content, fieldName)
                          ELSE content } })

extractContent(bs) == IF bs.compressed THEN decompressContent(bs.content) ELSE bs.content

DEFAULT_BOUNDED_STRING_CONFIG ==
    [maxSizeBytes |-> 50 * 1024 * 1024,
     compressionThreshold |-> 5 * 1024 * 1024,
     enableCompression |-> TRUE,
     enableSummarization |-> TRUE,
     summarizationThreshold |-> 30 * 1024 * 1024]

\* the module-level manager is built with the default configuration
boundString(content, fieldName) ==
    extractContent(processString(DEFAULT_BOUNDED_STRING_CONFIG, content, fieldName))

\* boundedStringReducer(fieldName)(_state, update)
boundedStringReducer(fieldName, state, update) == boundString(update, fieldName)

\* ------------------------------------------------------------------------
\* Inputs of the text operations
\* ------------------------------------------------------------------------
RECURSIVE SeqsUpTo(_, _)
SeqsUpTo(S, n) ==
    IF n = 0 THEN {<<>>}
    ELSE LET shorter == SeqsUpTo(S, n - 1)
         IN  shorter \cup { Append(q, x) : q \in shorter, x \in S }

TextsOver(shapes) == SeqsUpTo(shapes, MaxLines) \ {<<>>}

ProseLines == {<<>>, <<W("text", 20)>>, <<W("long", 300)>>,
               <<W("blob", 60 * 1024 * 1024)>>}
NoteLines == {<<>>, <<W("task:", 25)>>, <<W("error", 12)>>, <<W("text", 20)>>}
TreeLines == {<<Glyph, Ws(1), W("a.ts", 4)>>,
              <<Glyph, Glyph, Ws(1), W("b.txt", 5)>>,
              <<W("src", 3)>>}
CodeLines == {<<Decl("function", 14), P("{")>>, <<P("}")>>,
              <<Decl("import", 20)>>, <<Ws(2), W("stmt", 40)>>}

JArrNums == VArr([i \in 1..12 |-> VStr("item", 100)])
JArrBig == VArr(<<VStr("blob", 500), VNum(1)>>)
JObjDebug == VObj(<<Key("name", 4), Key("debug", 5)>>, <<VStr("x", 5), VStr("d", 300)>>)
JObjLong == VObj(<<Key("text", 4)>>, <<VStr("t", 1200)>>)
JObjMany == VObj(<<Key("a", 1), Key("b", 1), Key("c", 1), Key("d", 1), Key("e", 1)>>,
                 <<VStr("s", 150), VArr(<<VNum(2), VNum(2)>>), VNum(4),
                   VObj(<<Key("k", 1)>>, <<VNum(1)>>), VStr("u", 40)>>)
JSONValues == {JArrNums, JArrBig, JObjDebug, JObjLong, JObjMany}

WellFormedJSON ==
    { Stringify(v) : v \in JSONValues } \cup { StringifyPretty(v) : v \in JSONValues }

\* `["aaa...", 123,]`, `{name: "xxx..."}`, `{"a": ["xxx..."`, `{"a": "xxx...` and
\* `{ not json at all`
MalformedJSON ==
    { << <<P("["), Str("a", 100), P(","), Num(3), P(","), P("]")>> >>,
      << <<P("{"), Ident("name", 4), P(":"), Ws(1), Str("x", 100), P("}")>> >>,
      << <<P("{"), Str("a", 1), P(":"), Ws(1), P("["), Str("x", 100)>> >>,
      << <<P("{"), Str("a", 1), P(":"), Ws(1), UStr("x", 100)>> >>,
      << <<P("{"), Ws(1), W("not json at all", 100)>> >> }

TextInputs ==
    TextsOver(ProseLines) \cup TextsOver(NoteLines) \cup TextsOver(TreeLines)
    \cup TextsOver(CodeLines) \cup WellFormedJSON \cup MalformedJSON

TruncateSizes == {60, 160, 1100}
ContentTypes == {"", "json", "javascript", "codebase-tree"}
FieldNames == {"codebaseTree", "contextGatheringNotes", "unknown"}

SmallStringConfig ==
    [maxSizeBytes |-> 200, compressionThreshold |-> 50, enableCompression |-> TRUE,
     enableSummarization |-> TRUE, summarizationThreshold |-> 120]
StringConfigs ==
    {DEFAULT_BOUNDED_STRING_CONFIG, SmallStringConfig,
     [SmallStringConfig EXCEPT !.enableSummarization = FALSE]}

NoTruncation ==
    [called |-> FALSE, maxSize |-> 0, contentType |-> "",
     res |-> TruncationResult(EmptyText, FALSE, 0, TRUE, "none")]
NoBoundedString ==
    [called |-> FALSE, cfg |-> DEFAULT_BOUNDED_STRING_CONFIG, fieldName |-> "",
     res |-> [content |-> EmptyText, compressed |-> FALSE, summarized |-> FALSE,
              originalSizeBytes |-> 0, currentSizeBytes |-> 0],
     reduced |-> EmptyText]

NoValidation ==
    [called |-> FALSE, res |-> ValidationResult(FALSE, FALSE, EmptyText, "none")]

\* ------------------------------------------------------------------------
\* truncateOutput
\* ------------------------------------------------------------------------
\* a text is the sequence of its pieces: characters of the output, the
\* notice with the two numbers it quotes, and the truncation marker
OutChar(c) == [t |-> "char", c |-> c, received |-> 0, allowed |-> 0]
OutNotice(received, allowed) ==
    [t |-> "notice", c |-> "", received |-> received, allowed |-> allowed]
OutMarker == [t |-> "marker", c |-> "", received |-> 0, allowed |-> 0]

\* a limit is a number or Infinity, the default of an option that is not given
Limit(n) == [infinite |-> FALSE, n |-> n]
Infinity == [infinite |-> TRUE, n |-> 0]

Returned(text) == [threw |-> FALSE, text |-> text]
Thrown == [threw |-> TRUE, text |-> <<>>]

\* output.slice(-numEndCharacters)
OutputTail(output, numEndCharacters) == SliceLast(output, numEndCharacters)

truncateOutput(output, numStartCharacters, numEndCharacters) ==
    IF numStartCharacters.infinite \/ numEndCharacters.infinite THEN Returned(output)
    ELSE IF numStartCharacters.n < 0 \/ numEndCharacters.n < 0 THEN Thrown
    ELSE IF numStartCharacters.n = 0 /\ numEndCharacters.n = 0 THEN Thrown
    ELSE IF Len(output) <= numStartCharacters.n + numEndCharacters.n THEN Returned(output)
    ELSE Returned(<<OutNotice(Len(output), numStartCharacters.n + numEndCharacters.n)>>
                  \o SliceFirst(output, numStartCharacters.n)
                  \o <<OutMarker>>
                  \o OutputTail(output, numEndCharacters.n))

OutputChars == {"a", "b"}
Outputs ==
    { [i \in 1..Len(cs) |-> OutChar(cs[i])] : cs \in SeqsUpTo(OutputChars, MaxOutputLen) }
Limits == { Limit(n) : n \in (-1)..MaxLimit } \cup {Infinity}

NoOutputCall ==
    [called |-> FALSE, output |-> <<>>, numStartCharacters |-> Infinity,
     numEndCharacters |-> Infinity, res |-> Returned(<<>>)]

OutputInit ==
    /\ txtInput = EmptyText
    /\ truncResult = NoTruncation
    /\ boundedString = NoBoundedString
    /\ validated = NoValidation
    /\ outputCall = NoOutputCall

\* truncateOutput(output, { numStartCharacters, numEndCharacters })
DoTruncateOutput ==
    \E output \in Outputs, numStartCharacters \in Limits, numEndCharacters \in Limits :
        /\ outputCall' = [called |-> TRUE, output |-> output,
                          numStartCharacters |-> numStartCharacters,
                          numEndCharacters |-> numEndCharacters,
                          res |-> truncateOutput(output, numStartCharacters,
                                                 numEndCharacters)]
        /\ UNCHANGED <<txtInput, truncResult, boundedString, validated>>

TxtInit ==
    /\ txtInput \in TextInputs
    /\ truncResult = NoTruncation
    /\ boundedString = NoBoundedString
    /\ validated = NoValidation
    /\ outputCall = NoOutputCall

\* the state of the text operations in the specifications of other components
TxtIdle ==
    /\ txtInput = EmptyText
    /\ truncResult = NoTruncation
    /\ boundedString = NoBoundedString
    /\ validated = NoValidation
    /\ outputCall = NoOutputCall

\* syntaxAwareTruncator.truncate(txtInput, maxSize, contentType)
DoTruncate(maxSize, contentType) ==
    /\ ~truncResult.called /\ ~boundedString.called
    /\ truncResult' = [called |-> TRUE, maxSize |-> maxSize, contentType |-> contentType,
                       res |-> truncate(txtInput, maxSize, contentType)]
    /\ UNCHANGED <<txtInput, boundedString, validated, outputCall>>

\* a tree above 10 MB that is summarized takes the giant-codebase strategy
TakesGiantStrategy(cfg, content, fieldName) ==
    /\ fieldName = "codebaseTree"
    /\ ByteLen(content) > cfg.summarizationThreshold /\ cfg.enableSummarization
    /\ ByteLen(content) > GiantTreeBytes

\* new BoundedStringManager(cfg).processString(txtInput, fieldName), and the
\* reducer of the same field applied to the same update
DoProcessString(cfg, fieldName) ==
    /\ ~truncResult.called /\ ~boundedString.called
    /\ ~TakesGiantStrategy(cfg, txtInput, fieldName)
    /\ ~TakesGiantStrategy(DEFAULT_BOUNDED_STRING_CONFIG, txtInput, fieldName)
    /\ boundedString' = [called |-> TRUE, cfg |-> cfg, fieldName |-> fieldName,
                         res |-> processString(cfg, txtInput, fieldName),
                         reduced |-> boundedStringReducer(fieldName, EmptyText, txtInput)]
    /\ UNCHANGED <<txtInput, truncResult, validated, outputCall>>

\* ------------------------------------------------------------------------
\* Inputs of validateAndFix
\* ------------------------------------------------------------------------
\* the characters and tokens a one-line JSON-like text is made of
ValidatorAtoms ==
    {P("{"), P("}"), P("["), P("]"), P(","), P(":"), Str("a", 1), Num(1), Ident("k", 1)}

\* one-line texts of up to MaxAtoms of them, with or without a string that
\* is cut off at the end of the text, and the texts the truncator is given
ValidatorInputs ==
    { <<atoms \o tail>> : atoms \in SeqsUpTo(ValidatorAtoms, MaxAtoms),
                          tail \in {<<>>, <<UStr("x", 1)>>} }
    \cup WellFormedJSON \cup MalformedJSON \cup TextsOver(NoteLines)

ValidateInit ==
    /\ txtInput \in ValidatorInputs
    /\ truncResult = NoTruncation
    /\ boundedString = NoBoundedString
    /\ validated = NoValidation
    /\ outputCall = NoOutputCall

\* jsonValidator.validateAndFix(txtInput)
DoValidate ==
    /\ ~validated.called
    /\ validated' = [called |-> TRUE, res |-> validateAndFix(txtInput)]
    /\ UNCHANGED <<txtInput, truncResult, boundedString, outputCall>>


\* ========================================================================
\* ContentAnalyzer, AdvancedToolAnalyzer and IntelligentContextManager
\* ========================================================================
\* a message is an object { role, content, tool_calls }; id is its identity,
\* content the phrases of its text in order, a tool call is [name, path]
CtxMessage(id, role, content, tool_calls) ==
    [id |-> id, role |-> role, content |-> content, tool_calls |-> tool_calls]

Includes(content, phrases) == \E i \in 1..Len(content) : content[i] \in phrases

\* String.prototype.toLowerCase on a phrase
ToLowerCase(phrase) ==
    CASE phrase = "You are a" -> "you are a"
      [] phrase = "You must" -> "you must"
      [] OTHER -> phrase

CodeIndicators ==
    {".tsx", ".ts", ".js", ".jsx", ".py", ".java", ".cpp", "function ", "class ",
     "const ", "let ", "var ", "import ", "export ", "interface ", "type "}

CodeToolNames == {"edit", "create", "str_replace"}

\* the phrase that stands for a fenced code block (three backquotes)
CodeFence == "code fence"

isCodeGeneration(message) ==
    IF Includes(message.content, {CodeFence}) THEN TRUE
    ELSE IF message.tool_calls # <<>>
    THEN \E i \in 1..Len(message.tool_calls) : message.tool_calls[i].name \in CodeToolNames
    ELSE Includes(message.content, CodeIndicators)

SystemPatterns ==
    {"you are a", "act as", "your role is", "system:", "instructions:", "you must",
     "always respond", "never do", "follow these rules"}

isSystemPrompt(message) ==
    IF message.role = "system" THEN TRUE
    ELSE IF message.role \in {"user", "assistant"}
    THEN \E i \in 1..Len(message.content) :
             ToLowerCase(message.content[i]) \in SystemPatterns
    ELSE \/ (message.content # <<>> /\ message.content[1] \in {"You are a"})
         \/ Includes(message.content, {"system:"})

ConfigPatterns ==
    {"config", ".env", "settings", "constants", "webpack", "vite", "rollup", "babel",
     "tsconfig", "package.json", "yarn.lock", "docker", "nginx", "apache"}

\* the paths of the modelled tool calls are a configuration file or a plain
\* source file, for which no other check of the analyzer answers
isConfigurationFile(pathLower) == pathLower \in ConfigPatterns

analyzeToolCriticality(toolCall) ==
    IF isConfigurationFile(toolCall.path) THEN "ESSENTIAL" ELSE "ROUTINE"

\* whether analyzeAllTools lists the index of this message under essential
HasEssentialTool(message) ==
    \E i \in 1..Len(message.tool_calls) :
        analyzeToolCriticality(message.tool_calls[i]) = "ESSENTIAL"

\* process.memoryUsage() in MB; the usage ratio in whole percent, rounded down
EstimatedMaxHeap(mem) == Max(mem.heapTotal * 2, 2 * 1024)
getHeapUsagePercentage(mem) == (mem.heapUsed * 100) \div EstimatedMaxHeap(mem)

MinRecentFloor == 5
MinRecentCap == 15

\* Math.floor(totalMessages * targetReductionRatio), the ratio in tenths
getSummarizationThreshold(heapUsage, totalMessages) ==
    LET targetTenths == IF heapUsage < 70 THEN 7
                        ELSE IF heapUsage < 80 THEN 5
                        ELSE IF heapUsage < 90 THEN 3
                        ELSE 2
        targetRecentMessages == (totalMessages * targetTenths) \div 10
        minRecentMessages == Max(MinRecentFloor, Min(MinRecentCap, totalMessages))
    IN  Max(minRecentMessages, targetRecentMessages)

\* the summary of the old messages, added as a user message
SummaryAsUser ==
    CtxMessage(0, "user", <<"[CONTEXTO RESUMIDO", "summary">>, <<>>)

\* messages.find(pred): the first match, <<>> for undefined
FindSystemPrompt(msgs) ==
    LET found == SelectSeq(msgs, isSystemPrompt)
    IN  IF found = <<>> THEN <<>> ELSE <<found[1]>>

IsSummaryMessage(m) == m.role = "user" /\ Includes(m.content, {"[CONTEXTO RESUMIDO"})

EmergencyKeep == 3

\* the emergency reduction at the end of intelligentSummarize
EmergencyResult(systemPrompt, result, recentNonSystemMessages) ==
    LET summaries == SelectSeq(result, IsSummaryMessage)
    IN  systemPrompt
        \o (IF summaries = <<>> THEN <<>> ELSE <<summaries[1]>>)
        \o SliceLast(recentNonSystemMessages, EmergencyKeep)

\* step 3: the essential old messages and the summary of the others
OldPart(oldMessages) ==
    IF oldMessages = <<>> THEN <<>>
    ELSE SelectSeq(oldMessages, HasEssentialTool)
         \o (IF SelectSeq(oldMessages, LAMBDA m : ~HasEssentialTool(m)) # <<>>
             THEN <<SummaryAsUser>> ELSE <<>>)

\* step 4: the last code generations that are neither recent nor in the result
AdditionalCodeGens(msgs, result, recentStartIndex, keepLast) ==
    LET all == SelectSeq([i \in 1..Len(msgs) |-> i],
                         LAMBDA i : isCodeGeneration(msgs[i]))
        kept == SelectSeq(SliceLast(all, keepLast),
                          LAMBDA i : /\ i - 1 < recentStartIndex
                                     /\ \A k \in 1..Len(result) :
                                            result[k].id # msgs[i].id)
    IN  [k \in 1..Len(kept) |-> msgs[kept[k]]]

\* the summarization without its final validation
ValidatedResult_Unchecked(msgs, systemPrompt, result, recentNonSystemMessages) == result

\* the validation at the end of intelligentSummarize
ValidatedResult(msgs, systemPrompt, result, recentNonSystemMessages) ==
    IF Len(result) >= Len(msgs)
    THEN EmergencyResult(systemPrompt, result, recentNonSystemMessages)
    ELSE result

SummarizeParts(msgs, options, systemPrompt, oldPart, recentNonSystemMessages) ==
    The({ ValidatedResult(msgs, systemPrompt,
                          systemPrompt \o oldPart \o additional \o recentNonSystemMessages,
                          recentNonSystemMessages) :
          additional \in { AdditionalCodeGens(msgs, systemPrompt \o oldPart,
                               Len(msgs) - options.summarizeOlderThan,
                               options.keepLastCodeGenerations) } })

\* messages.slice(0, -n) for n >= 1
SliceButLast(s, n) == SubSeq(s, 1, Len(s) - n)

intelligentSummarize(msgs, options) ==
    The({ SummarizeParts(msgs, options, systemPrompt, oldPart, recent) :
          systemPrompt \in { FindSystemPrompt(msgs) },
          oldPart \in { OldPart(SliceButLast(msgs, options.summarizeOlderThan)) },
          recent \in { SelectSeq(SliceLast(msgs, options.summarizeOlderThan),
                                  LAMBDA m : ~isSystemPrompt(m)) } })

PROVIDER_MESSAGE_FORMATS ==
    [provider \in {"anthropic", "google-genai", "openai"} |->
        IF provider = "openai"
        THEN [systemMessagePosition |-> "first", supportsMultipleSystem |-> TRUE,
              summaryMessageType |-> "system", maxContextLength |-> 400000,
              requiresSystemFirst |-> TRUE]
        ELSE [systemMessagePosition |-> "first", supportsMultipleSystem |-> FALSE,
              summaryMessageType |-> "user",
              maxContextLength |-> IF provider = "anthropic" THEN 200000 ELSE 2000000,
              requiresSystemFirst |-> TRUE]]

\* every provider format has requiresSystemFirst: the method validates, logs
\* and returns its argument
formatForProvider(msgs, provider) == msgs

NormalUsageBelow == 60
KeepLastCodeGenerations == 10

\* heapUsage < 0.60: memory is fine, no adaptation
NeedsNoAdaptation_AtThreshold(heapUsage) == heapUsage <= NormalUsageBelow
NeedsNoAdaptation(heapUsage) == heapUsage < NormalUsageBelow

adaptPrompt(msgs, provider, mem) ==
    IF NeedsNoAdaptation(getHeapUsagePercentage(mem))
    THEN formatForProvider(msgs, provider)
    ELSE formatForProvider(
             intelligentSummarize(msgs,
                 [keepLastCodeGenerations |-> KeepLastCodeGenerations,
                  summarizeOlderThan |->
                      getSummarizationThreshold(getHeapUsagePercentage(mem), Len(msgs)),
                  heapUsage |-> getHeapUsagePercentage(mem)]),
             provider)

\* ------------------------------------------------------------------------
\* Inputs of adaptPrompt
\* ------------------------------------------------------------------------
Providers == {"anthropic", "google-genai", "openai"}

\* heapUsed and heapTotal in MB: 48 %, 63 %, 73 %, 83 %, 92 % of 2 GB, 61 % of 8 GB,
\* and 59.99 % and 60 % of 10000 MB
MemoryUsages ==
    { [heapUsed |-> u, heapTotal |-> 1024] : u \in {1000, 1300, 1500, 1700, 1900} }
    \cup { [heapUsed |-> 5000, heapTotal |-> 4096] }
    \cup { [heapUsed |-> u, heapTotal |-> 5000] : u \in {5999, 6000} }

\* role, content and tool calls of the messages of a conversation
CtxShapes ==
    { [role |-> "system", content |-> <<"You are a", "coding agent">>, tool_calls |-> <<>>],
      [role |-> "user", content |-> <<"hello">>, tool_calls |-> <<>>],
      [role |-> "user", content |-> <<"You must", "reply in English">>, tool_calls |-> <<>>],
      [role |-> "assistant", content |-> <<CodeFence>>, tool_calls |-> <<>>],
      [role |-> "assistant", content |-> <<>>,
       tool_calls |-> <<[name |-> "str_replace", path |-> "package.json"]>>],
      [role |-> "assistant", content |-> <<>>,
       tool_calls |-> <<[name |-> "view", path |-> "src/a.ts"]>>],
      [role |-> "tool", content |-> <<"Result:">>, tool_calls |-> <<>>] }

PlainShape == [role |-> "user", content |-> <<"hello">>, tool_calls |-> <<>>]

\* the length of the run of plain messages in the middle of a long conversation
BulkLen == 14
LongBulkLen == 98

\* a conversation: some messages, a run of plain ones or none, one more or none
Conversations ==
    { [i \in 1..Len(shapes) |->
          CtxMessage(i, shapes[i].role, shapes[i].content, shapes[i].tool_calls)] :
      shapes \in { head \o [k \in 1..bulk |-> PlainShape] \o tail :
                   head \in SeqsUpTo(CtxShapes, MaxHead) \ {<<>>},
                   bulk \in {0, BulkLen, LongBulkLen},
                   tail \in SeqsUpTo(CtxShapes, 1) } }

NoAdaptation ==
    [called |-> FALSE, provider |-> "", mem |-> [heapUsed |-> 0, heapTotal |-> 0],
     out |-> <<>>]

CtxInit ==
    /\ ctxMessages \in Conversations
    /\ ctxResult = NoAdaptation

CtxIdle ==
    /\ ctxMessages = <<>>
    /\ ctxResult = NoAdaptation

\* contextManager.adaptPrompt(ctxMessages, provider) while process.memoryUsage()
\* returns mem
AdaptPrompt(provider, mem) ==
    /\ ~ctxResult.called
    /\ ctxResult' = [called |-> TRUE, provider |-> provider, mem |-> mem,
                     out |-> adaptPrompt(ctxMessages, provider, mem)]
    /\ UNCHANGED ctxMessages

DoAdaptPrompt == \E provider \in Providers, mem \in MemoryUsages : AdaptPrompt(provider, mem)

\* ========================================================================
\* MemoryMonitor
\* ========================================================================
\* memory figures are in KiB (the bytes process.memoryUsage() reports / 1024),
\* thresholds in MB as in the configuration
KiBPerMB == 1024

\* getHeapLimitMB() without LG_MAX_HEAP_SIZE and --max-old-space-size
HEAP_LIMIT_MB == 8192

DEFAULT_MONITOR_CONFIG ==
    [intervalMs |-> 5000,
     warningThresholds |-> [heapUsedMB |-> (HEAP_LIMIT_MB * 70) \div 100,
                            externalMB |-> (HEAP_LIMIT_MB * 30) \div 100,
                            arrayBuffersMB |-> (HEAP_LIMIT_MB * 20) \div 100],
     criticalThresholds |-> [heapUsedMB |-> (HEAP_LIMIT_MB * 85) \div 100,
                             externalMB |-> (HEAP_LIMIT_MB * 50) \div 100,
                             arrayBuffersMB |-> (HEAP_LIMIT_MB * 30) \div 100],
     enableGCTrigger |-> TRUE,
     maxHistoryEntries |-> 100]

MaxAlerts == 50

\* stats.x / 1024 / 1024 > thresholdMB
ExceedsMB(kib, thresholdMB) == kib > thresholdMB * KiBPerMB

\* an alert list that is never trimmed
generateAlert_KeepAll(m, level, metric, currentValue, threshold, timestamp) ==
    [m EXCEPT !.alerts = Append(@, [level |-> level, metric |-> metric,
                                    currentValue |-> currentValue,
                                    threshold |-> threshold, timestamp |-> timestamp])]

\* generateAlert on the monitor m: the alert is kept, a critical one triggers
\* the garbage collector if enabled and exposed, the oldest alert goes past 50
generateAlert(m, level, metric, currentValue, threshold, timestamp) ==
    LET alert == [level |-> level, metric |-> metric, currentValue |-> currentValue,
                  threshold |-> threshold, timestamp |-> timestamp]
        pushed == Append(m.alerts, alert)
    IN  [m EXCEPT !.alerts = IF Len(pushed) > MaxAlerts THEN Tail(pushed) ELSE pushed,
                  !.gcCalls = IF level = "critical" /\ m.config.enableGCTrigger /\ m.gcExposed
                              THEN Append(@, timestamp) ELSE @]

\* the six checks of checkThresholds in order
ThresholdChecks(config, stats) ==
    << [level |-> "critical", metric |-> "heapUsed", value |-> stats.heapUsed,
        threshold |-> config.criticalThresholds.heapUsedMB],
       [level |-> "critical", metric |-> "external", value |-> stats.external,
        threshold |-> config.criticalThresholds.externalMB],
       [level |-> "critical", metric |-> "arrayBuffers", value |-> stats.arrayBuffers,
        threshold |-> config.criticalThresholds.arrayBuffersMB],
       [level |-> "warning", metric |-> "heapUsed", value |-> stats.heapUsed,
        threshold |-> config.warningThresholds.heapUsedMB],
       [level |-> "warning", metric |-> "external", value |-> stats.external,
        threshold |-> config.warningThresholds.externalMB],
       [level |-> "warning", metric |-> "arrayBuffers", value |-> stats.arrayBuffers,
        threshold |-> config.warningThresholds.arrayBuffersMB] >>

RECURSIVE RunChecks(_, _, _)
RunChecks(m, checks, timestamp) ==
    IF checks = <<>> THEN m
    ELSE RunChecks(IF ExceedsMB(Head(checks).value, Head(checks).threshold)
                   THEN generateAlert(m, Head(checks).level, Head(checks).metric,
                                      Head(checks).value, Head(checks).threshold, timestamp)
                   ELSE m,
                   Tail(checks), timestamp)

checkThresholds(m, stats) == RunChecks(m, ThresholdChecks(m.config, stats), stats.timestamp)

\* checkMemory with the sample stats
checkMemory(m, stats) ==
    LET pushed == Append(m.history, stats)
    IN  checkThresholds(
            [m EXCEPT !.history = IF Len(pushed) > m.config.maxHistoryEntries
                                  THEN Tail(pushed) ELSE pushed],
            stats)

\* ------------------------------------------------------------------------
\* The monitor and the samples it takes
\* ------------------------------------------------------------------------
\* the defaults, three partial configurations merged over them, the last one
\* with the heap-used warning threshold at the critical one
MonitorConfigs ==
    { DEFAULT_MONITOR_CONFIG,
      [DEFAULT_MONITOR_CONFIG EXCEPT !.enableGCTrigger = FALSE],
      [DEFAULT_MONITOR_CONFIG EXCEPT !.maxHistoryEntries = 1],
      [DEFAULT_MONITOR_CONFIG EXCEPT
           !.warningThresholds.heapUsedMB = (HEAP_LIMIT_MB * 85) \div 100] }

\* heap-used below the warning threshold, between the two, exactly at the
\* critical threshold and at 86 % of the limit; external and array buffers
\* below and above their thresholds
MemorySamples ==
    { [rss |-> 9000 * KiBPerMB, heapUsed |-> h * KiBPerMB, heapTotal |-> 8000 * KiBPerMB,
       external |-> e * KiBPerMB, arrayBuffers |-> a * KiBPerMB] :
      h \in {5000, 6000, 6963, 7045}, e \in {100, 5000}, a \in {10, 2000} }

\* new MemoryMonitor(config); gcExposed is whether node runs with --expose-gc,
\* gcCalls the times at which global.gc() was called, timers the interval
\* timers of the monitor that the runtime holds (intervalId 0 is null), and
\* lastCall the last call made on the monitor with the state it found
NewMonitor(config, gcExposed) ==
    [config |-> config, history |-> <<>>, alerts |-> <<>>, isRunning |-> FALSE,
     intervalId |-> 0, timers |-> {},
     gcExposed |-> gcExposed, gcCalls |-> <<>>,
     lastCall |-> [op |-> "new", wasRunning |-> FALSE, clock |-> 0]]

\* process.memoryUsage() read at time timestamp
StatsOf(sample, timestamp) ==
    [rss |-> sample.rss, heapUsed |-> sample.heapUsed, heapTotal |-> sample.heapTotal,
     external |-> sample.external, arrayBuffers |-> sample.arrayBuffers,
     timestamp |-> timestamp]

\* setInterval returns a fresh timer id
NewTimerId(timers) == IF timers = {} THEN 1 ELSE 1 + CHOOSE t \in timers : \A u \in timers : u <= t

\* start() with the sample its first check reads
start_NoRunningCheck(m, stats) ==
    checkMemory([m EXCEPT !.isRunning = TRUE,
                          !.intervalId = NewTimerId(m.timers),
                          !.timers = @ \cup {NewTimerId(m.timers)}],
                stats)
start(m, stats) ==
    IF m.isRunning THEN m
    ELSE checkMemory([m EXCEPT !.isRunning = TRUE,
                               !.intervalId = NewTimerId(m.timers),
                               !.timers = @ \cup {NewTimerId(m.timers)}],
                     stats)

\* stop()
stop_KeepInterval(m) ==
    IF ~m.isRunning THEN m
    ELSE [m EXCEPT !.intervalId = 0, !.isRunning = FALSE]
stop(m) ==
    IF ~m.isRunning THEN m
    ELSE [m EXCEPT !.timers = IF m.intervalId # 0 THEN @ \ {m.intervalId} ELSE @,
                   !.intervalId = 0,
                   !.isRunning = FALSE]

\* created holds every monitor the functions made, in order of creation;
\* globalMonitor is the position of the current one, 0 for null
NoGlobalMonitor == [created |-> <<>>, globalMonitor |-> 0]

MonInit ==
    /\ monitor \in { NewMonitor(config, gcExposed) :
                     config \in MonitorConfigs, gcExposed \in BOOLEAN }
    /\ monClock = 0
    /\ globalMonitoring = NoGlobalMonitor

MonIdle ==
    /\ monitor = NewMonitor(DEFAULT_MONITOR_CONFIG, FALSE)
    /\ monClock = 0
    /\ globalMonitoring = NoGlobalMonitor

Called(m, op) ==
    [op |-> op, wasRunning |-> m.isRunning, clock |-> monClock]

\* monitor.start(): a running monitor is left as it is, another one sets its
\* interval and makes a first check at the next reading of Date.now()
MonitorStart == \E sample \in MemorySamples :
    /\ monitor.isRunning \/ monClock < MaxTicks
    /\ monitor' = [start(monitor, StatsOf(sample, monClock + 1))
                      EXCEPT !.lastCall = Called(monitor, "start")]
    /\ monClock' = IF monitor'.history # monitor.history THEN monClock + 1 ELSE monClock
    /\ UNCHANGED globalMonitoring

\* an interval timer of the monitor fires
MonitorTick == \E sample \in MemorySamples :
    /\ monitor.timers # {}
    /\ monClock < MaxTicks
    /\ monitor' = [checkMemory(monitor, StatsOf(sample, monClock + 1))
                      EXCEPT !.lastCall = Called(monitor, "tick")]
    /\ monClock' = monClock + 1
    /\ UNCHANGED globalMonitoring

\* ------------------------------------------------------------------------
\* A monitor that runs long enough to fill its history and its alert list
\* ------------------------------------------------------------------------
\* partial configurations with a short history
LongRunConfigs ==
    { [DEFAULT_MONITOR_CONFIG EXCEPT !.maxHistoryEntries = 1],
      [DEFAULT_MONITOR_CONFIG EXCEPT !.maxHistoryEntries = 3] }

\* a sample below every threshold and one above all six
LongRunSamples ==
    { [rss |-> 9000 * KiBPerMB, heapUsed |-> 5000 * KiBPerMB, heapTotal |-> 8000 * KiBPerMB,
       external |-> 100 * KiBPerMB, arrayBuffers |-> 10 * KiBPerMB],
      [rss |-> 9000 * KiBPerMB, heapUsed |-> 7045 * KiBPerMB, heapTotal |-> 8000 * KiBPerMB,
       external |-> 5000 * KiBPerMB, arrayBuffers |-> 3000 * KiBPerMB] }

LongRunInit ==
    /\ monitor \in { NewMonitor(config, FALSE) : config \in LongRunConfigs }
    /\ monClock = 0
    /\ globalMonitoring = NoGlobalMonitor

LongRunStart == \E sample \in LongRunSamples :
    /\ ~monitor.isRunning
    /\ monClock < MaxLongTicks
    /\ monitor' = [start(monitor, StatsOf(sample, monClock + 1))
                      EXCEPT !.lastCall = Called(monitor, "start")]
    /\ monClock' = monClock + 1
    /\ UNCHANGED globalMonitoring

LongRunTick == \E sample \in LongRunSamples :
    /\ monitor.timers # {}
    /\ monClock < MaxLongTicks
    /\ monitor' = [checkMemory(monitor, StatsOf(sample, monClock + 1))
                      EXCEPT !.lastCall = Called(monitor, "tick")]
    /\ monClock' = monClock + 1
    /\ UNCHANGED globalMonitoring

\* ------------------------------------------------------------------------
\* startMemoryMonitoring, stopMemoryMonitoring and getMemoryMonitor
\* ------------------------------------------------------------------------
\* a start that leaves the monitor it replaces as it is
startMemoryMonitoring_NoStop(g, config, stats) ==
    [created |-> Append(g.created, start(NewMonitor(config, FALSE), stats)),
     globalMonitor |-> Len(g.created) + 1]

startMemoryMonitoring(g, config, stats) ==
    LET stopped == IF g.globalMonitor # 0
                   THEN [g.created EXCEPT ![g.globalMonitor] = stop(@)]
                   ELSE g.created
    IN  [created |-> Append(stopped, start(NewMonitor(config, FALSE), stats)),
         globalMonitor |-> Len(stopped) + 1]

stopMemoryMonitoring(g) ==
    IF g.globalMonitor # 0
    THEN [created |-> [g.created EXCEPT ![g.globalMonitor] = stop(@)],
          globalMonitor |-> 0]
    ELSE g

getMemoryMonitor(g) == g.globalMonitor

GlobalConfigs ==
    { DEFAULT_MONITOR_CONFIG, [DEFAULT_MONITOR_CONFIG EXCEPT !.maxHistoryEntries = 1] }

GlobalInit ==
    /\ monitor = NewMonitor(DEFAULT_MONITOR_CONFIG, FALSE)
    /\ monClock = 0
    /\ globalMonitoring = NoGlobalMonitor

StartMemoryMonitoring == \E config \in GlobalConfigs, sample \in LongRunSamples :
    /\ Len(globalMonitoring.created) < MaxMonitors
    /\ monClock < MaxGlobalTicks
    /\ globalMonitoring' =
           startMemoryMonitoring(globalMonitoring, config, StatsOf(sample, monClock + 1))
    /\ monClock' = monClock + 1
    /\ UNCHANGED monitor

StopMemoryMonitoring ==
    /\ globalMonitoring' = stopMemoryMonitoring(globalMonitoring)
    /\ UNCHANGED <<monitor, monClock>>

\* an interval timer of one of the created monitors fires
GlobalTick == \E k \in 1..Len(globalMonitoring.created), sample \in LongRunSamples :
    /\ globalMonitoring.created[k].timers # {}
    /\ monClock < MaxGlobalTicks
    /\ globalMonitoring' =
           [globalMonitoring EXCEPT
               !.created[k] = checkMemory(@, StatsOf(sample, monClock + 1))]
    /\ monClock' = monClock + 1
    /\ UNCHANGED monitor

\* monitor.stop()
MonitorStop ==
    /\ monitor' = [stop(monitor) EXCEPT !.lastCall = Called(monitor, "stop")]
    /\ UNCHANGED <<monClock, globalMonitoring>>

\* ========================================================================
\* SmartSerializer (src/unnamed/part_005)
\* ========================================================================
\* A JavaScript value. A string is a sequence of tokens; a token stands for
\* the characters it spells.
JsNum(n) == [t |-> "num", num |-> n]
JsStr(chars) == [t |-> "str", chars |-> chars]
JsBool(b) == [t |-> "bool", bool |-> b]
JsNull == [t |-> "null"]
JsUndefined == [t |-> "undefined"]
JsBigInt == [t |-> "bigint"]
JsArr(items) == [t |-> "arr", items |-> items]
JsObj(fields) == [t |-> "obj", fields |-> fields]
JsField(k, v) == [k |-> k, v |-> v]

\* new Date().toISOString()
IsoTime == "2026-01-01T00:00:00.000Z"

\* the tokens spelled with more than one character, and their lengths
TokenWidths ==
    [tok \in {"true", "false", "null", "currentTask", "availableTools", "systemPrompt",
              "recentMessages", "messages", "toolOutputs", "history", "_truncated",
              "_originalSize", "_truncatedAt", "_fallback", "_extractedAt", "_system",
              "Unknown task", "GPTfy", "H4sI", IsoTime} |->
        CASE tok = "true" -> 4
          [] tok = "false" -> 5
          [] tok = "null" -> 4
          [] tok = "currentTask" -> 11
          [] tok = "availableTools" -> 14
          [] tok = "systemPrompt" -> 12
          [] tok = "recentMessages" -> 14
          [] tok = "messages" -> 8
          [] tok = "toolOutputs" -> 11
          [] tok = "history" -> 7
          [] tok = "_truncated" -> 10
          [] tok = "_originalSize" -> 13
          [] tok = "_truncatedAt" -> 12
          [] tok = "_fallback" -> 9
          [] tok = "_extractedAt" -> 12
          [] tok = "_system" -> 7
          [] tok = "Unknown task" -> 12
          [] tok = "GPTfy" -> 5
          [] tok = "H4sI" -> 4
          [] OTHER -> 24]

\* Buffer.byteLength(text, 'utf8') of a text of one-byte characters
SerByteLength(text) ==
    SumSeq([i \in 1..Len(text) |->
               IF text[i] \in DOMAIN TokenWidths THEN TokenWidths[text[i]] ELSE 1])

DigitTokens == <<"0", "1", "2", "3", "4", "5", "6", "7", "8", "9">>

\* the decimal digits of a natural number
RECURSIVE DecimalDigits(_)
DecimalDigits(n) ==
    IF n < 10 THEN <<DigitTokens[n + 1]>>
    ELSE DecimalDigits(n \div 10) \o <<DigitTokens[(n % 10) + 1]>>

\* JSON.stringify throws a TypeError on a BigInt
RECURSIVE HasBigInt(_)
HasBigInt(v) ==
    CASE v.t = "bigint" -> TRUE
      [] v.t = "arr" -> \E i \in 1..Len(v.items) : HasBigInt(v.items[i])
      [] v.t = "obj" -> \E i \in 1..Len(v.fields) : HasBigInt(v.fields[i].v)
      [] OTHER -> FALSE

\* JSON.stringify: a property whose value is undefined is left out, an
\* undefined array element is written as null
RECURSIVE JSONStringify(_)
RECURSIVE SerStringifyItems(_)
RECURSIVE SerStringifyFields(_, _)
JSONStringify(v) ==
    CASE v.t = "num" -> DecimalDigits(v.num)
      [] v.t = "str" -> <<"\"">> \o v.chars \o <<"\"">>
      [] v.t = "bool" -> IF v.bool THEN <<"true">> ELSE <<"false">>
      [] v.t = "null" -> <<"null">>
      [] v.t = "undefined" -> <<"null">>
      [] v.t = "arr" -> <<"[">> \o SerStringifyItems(v.items) \o <<"]">>
      [] v.t = "obj" -> <<"{">> \o SerStringifyFields(v.fields, TRUE) \o <<"}">>
SerStringifyItems(items) ==
    IF items = <<>> THEN <<>>
    ELSE JSONStringify(Head(items))
         \o (IF Len(items) > 1 THEN <<",">> ELSE <<>>)
         \o SerStringifyItems(Tail(items))
SerStringifyFields(fields, first) ==
    IF fields = <<>> THEN <<>>
    ELSE IF Head(fields).v.t = "undefined" THEN SerStringifyFields(Tail(fields), first)
    ELSE (IF first THEN <<>> ELSE <<",">>)
         \o <<"\"", Head(fields).k, "\"", ":">>
         \o JSONStringify(Head(fields).v)
         \o SerStringifyFields(Tail(fields), FALSE)

\* data[field] of an object; undefined for a missing property
HasField(v, k) == v.t = "obj" /\ \E i \in 1..Len(v.fields) : v.fields[i].k = k
GetField(v, k) ==
    IF HasField(v, k)
    THEN v.fields[CHOOSE i \in 1..Len(v.fields) : v.fields[i].k = k].v
    ELSE JsUndefined

\* a value that counts as true in a condition
Truthy(v) ==
    CASE v.t = "undefined" -> FALSE
      [] v.t = "null" -> FALSE
      [] v.t = "bool" -> v.bool
      [] v.t = "num" -> v.num # 0
      [] v.t = "str" -> v.chars # <<>>
      [] OTHER -> TRUE

CriticalFields == <<"currentTask", "availableTools", "systemPrompt", "recentMessages">>
KeepMessages == 50
KeepToolOutputs == 20
KeepHistory == 100

\* the fields truncateData copies: the critical ones that are defined, then
\* the tails of the three arrays
CopiedCritical(data) ==
    LET present == SelectSeq(CriticalFields,
                             LAMBDA f : GetField(data, f).t # "undefined")
    IN  [i \in 1..Len(present) |-> JsField(present[i], GetField(data, present[i]))]
TailOfArray(data, k, n) ==
    IF GetField(data, k).t = "arr"
    THEN <<JsField(k, JsArr(SliceLast(GetField(data, k).items, n)))>>
    ELSE <<>>

truncateData(data) ==
    IF data.t \in {"obj", "arr"}
    THEN JsObj(CopiedCritical(data)
             \o TailOfArray(data, "messages", KeepMessages)
             \o TailOfArray(data, "toolOutputs", KeepToolOutputs)
             \o TailOfArray(data, "history", KeepHistory)
             \o <<JsField("_truncated", JsBool(TRUE)),
                  JsField("_originalSize", JsNum(SerByteLength(JSONStringify(data)))),
                  JsField("_truncatedAt", JsStr(<<IsoTime>>))>>)
    ELSE data

OrElse(v, other) == IF Truthy(v) THEN v ELSE other

extractCriticalData(data) ==
    JsObj(<<JsField("currentTask", OrElse(GetField(data, "currentTask"), JsStr(<<"Unknown task">>))),
          JsField("availableTools", OrElse(GetField(data, "availableTools"), JsArr(<<>>))),
          JsField("systemPrompt", OrElse(GetField(data, "systemPrompt"), JsStr(<<>>))),
          JsField("recentMessages", OrElse(GetField(data, "recentMessages"), JsArr(<<>>))),
          JsField("_fallback", JsBool(TRUE)),
          JsField("_extractedAt", JsStr(<<IsoTime>>)),
          JsField("_system", JsStr(<<"GPTfy">>))>>)

\* gzip followed by base64. The base64 text of a gzip stream starts with
\* H4sI; the rest is written token by token: the code of the k-th token of
\* SerTokens is the k-th token of GzCodes.
GzHeader == "H4sI"
SerTokens ==
    <<"{", "}", "[", "]", "\"", ":", ",", "0", "1", "2", "3", "4", "5", "6", "7", "8",
      "9", "a", "true", "false", "null", "currentTask", "availableTools", "systemPrompt",
      "recentMessages", "messages", "toolOutputs", "history", "_truncated",
      "_originalSize", "_truncatedAt", "_fallback", "_extractedAt", "_system",
      "Unknown task", "GPTfy", IsoTime, "H4sI", "g09">>
GzCodes ==
    <<"g01", "g02", "g03", "g04", "g05", "g06", "g07", "g08", "g09", "g10", "g11", "g12",
      "g13", "g14", "g15", "g16", "g17", "g18", "g19", "g20", "g21", "g22", "g23", "g24",
      "g25", "g26", "g27", "g28", "g29", "g30", "g31", "g32", "g33", "g34", "g35", "g36",
      "g37", "g38", "g39">>
GzCodeOf(tok) == GzCodes[CHOOSE k \in 1..Len(SerTokens) : SerTokens[k] = tok]
GzTokenOf(code) == SerTokens[CHOOSE k \in 1..Len(GzCodes) : GzCodes[k] = code]
IsGzCode(code) == \E k \in 1..Len(GzCodes) : GzCodes[k] = code

SerCompress(text) == <<GzHeader>> \o [i \in 1..Len(text) |-> GzCodeOf(text[i])]

\* Buffer.from(text, 'base64') skips every character outside the base64
\* alphabets and never throws
NonBase64Tokens == {"{", "}", "[", "]", "\"", ":", ",", "Unknown task", IsoTime}
Base64Decode(text) == SelectSeq(text, LAMBDA tok : tok \notin NonBase64Tokens)

\* gunzip of the decoded bytes: it throws unless they are a gzip stream
SerDecompress(text) ==
    LET bytes == Base64Decode(text)
    IN  IF /\ Len(bytes) >= 1
           /\ bytes[1] = GzHeader
           /\ \A i \in 2..Len(bytes) : IsGzCode(bytes[i])
        THEN [ok |-> TRUE, text |-> [i \in 1..(Len(bytes) - 1) |-> GzTokenOf(bytes[i + 1])]]
        ELSE [ok |-> FALSE, text |-> <<>>]

\* isCompressed: true unless Buffer.from throws, and it does not
isCompressed(text) ==
    LET decoded == Base64Decode(text)
    IN  TRUE

\* serialize: the string it resolves to, or a rejection when the fallback
\* itself cannot be stringified
serialize(cfg, data) ==
    IF HasBigInt(data)
    THEN IF HasBigInt(extractCriticalData(data))
         THEN [ok |-> FALSE, text |-> <<>>]
         ELSE [ok |-> TRUE, text |-> JSONStringify(extractCriticalData(data))]
    ELSE LET jsonString == JSONStringify(data)
             sizeBytes == SerByteLength(jsonString)
             truncatedJson == JSONStringify(truncateData(data))
         IN  IF sizeBytes > cfg.maxSizeBytes
             THEN [ok |-> TRUE,
                   text |-> IF cfg.enableCompression THEN SerCompress(truncatedJson)
                            ELSE truncatedJson]
             ELSE IF sizeBytes > cfg.compressionThreshold /\ cfg.enableCompression
             THEN [ok |-> TRUE, text |-> SerCompress(jsonString)]
             ELSE [ok |-> TRUE, text |-> jsonString]

\* the values serialize can hand to JSON.stringify
SerLeaves == {JsNum(1), JsStr(<<"a">>), JsNull, JsBool(TRUE), JsStr(SerCompress(<<"1">>))}
SerArrays == { JsArr(items) : items \in SeqsUpTo({JsNum(1), JsStr(<<"a">>)}, MaxItems) }
SerObjects ==
    { JsObj(<<JsField("a", v)>>) : v \in {JsNum(1), JsUndefined, JsBigInt, JsArr(<<JsNum(1)>>)} }
    \cup { JsObj(<<JsField("currentTask", JsStr(<<"a">>)), JsField("messages", m)>> \o extra) :
             m \in SerArrays, extra \in {<<>>, <<JsField("a", JsBigInt)>>} }
SerInputs == SerLeaves \cup SerArrays \cup SerObjects

\* what JSON.parse makes of the text JSON.stringify wrote for a value
RECURSIVE Reparsed(_)
Reparsed(v) ==
    CASE v.t = "undefined" -> JsNull
      [] v.t = "arr" -> JsArr([i \in 1..Len(v.items) |-> Reparsed(v.items[i])])
      [] v.t = "obj" ->
            LET kept == SelectSeq(v.fields, LAMBDA f : f.v.t # "undefined")
            IN  JsObj([i \in 1..Len(kept) |-> JsField(kept[i].k, Reparsed(kept[i].v))])
      [] OTHER -> v

\* the values whose JSON text the serializer can meet
JsonUniverse ==
    LET sources == { v \in SerInputs : ~HasBigInt(v) }
        written == sources
                   \cup { truncateData(v) : v \in sources }
                   \cup { extractCriticalData(v) : v \in { w \in SerInputs : HasBigInt(w) } }
    IN  { Reparsed(v) : v \in written }

\* JSON.parse: the value a JSON text denotes; it throws on any other text
JSONParseText(text) ==
    LET denoted == { v \in JsonUniverse : JSONStringify(v) = text }
    IN  IF denoted = {} THEN [ok |-> FALSE, value |-> JsNull]
        ELSE [ok |-> TRUE, value |-> The(denoted)]

\* deserialize: the value it resolves to, or the Error it throws
deserialize(text) ==
    IF isCompressed(text)
    THEN LET decompressed == SerDecompress(text)
         IN  IF decompressed.ok THEN JSONParseText(decompressed.text)
             ELSE [ok |-> FALSE, value |-> JsNull]
    ELSE JSONParseText(text)

MiB == 1024 * 1024
DEFAULT_SERIALIZATION_CONFIG ==
    [maxSizeBytes |-> 200 * MiB, compressionThreshold |-> 10 * MiB,
     enableCompression |-> TRUE]

\* the default configuration, and small ones under which the inputs are
\* compressed or truncated
SerConfigs ==
    {DEFAULT_SERIALIZATION_CONFIG}
    \cup { [maxSizeBytes |-> m, compressionThreshold |-> 6, enableCompression |-> c] :
             m \in {20, 1000}, c \in BOOLEAN }

NotSerialized == [done |-> FALSE, ok |-> FALSE, text |-> <<>>]
NotDeserialized == [called |-> FALSE, ok |-> FALSE, value |-> JsNull]

SerInit ==
    /\ serConfig \in SerConfigs
    /\ serData \in SerInputs
    /\ serialized = NotSerialized
    /\ deserialized = NotDeserialized

SerIdle ==
    /\ serConfig = DEFAULT_SERIALIZATION_CONFIG
    /\ serData = JsNull
    /\ serialized = NotSerialized
    /\ deserialized = NotDeserialized

\* await serializer.serialize(data)
Serialize ==
    /\ ~serialized.done
    /\ serialized' = The({ [done |-> TRUE, ok |-> r.ok, text |-> r.text] :
                             r \in {serialize(serConfig, serData)} })
    /\ UNCHANGED <<serConfig, serData, deserialized>>

\* await serializer.deserialize(serialized)
Deserialize ==
    /\ serialized.done /\ serialized.ok
    /\ ~deserialized.called
    /\ deserialized' = The({ [called |-> TRUE, ok |-> r.ok, value |-> r.value] :
                               r \in {deserialize(serialized.text)} })
    /\ UNCHANGED <<serConfig, serData, serialized>>

\* ========================================================================
\* boundedStringReducer over the giant-codebase strategy, in two runs
\* ========================================================================
LARGE_CODEBASE_CONFIG ==
    [maxCodebaseTreeSize |-> 100 * 1024 * 1024, intelligentSampling |-> TRUE,
     maxDepthLevels |-> 5]

\* every priority and exclude pattern begins with **/, which the conversion to
\* a regular expression turns into \.[^/]*/ : a name matches only if it keeps
\* a slash, and extractFileName keeps one only for a path that ends in a slash
PriorityPathNames == {".cfg/package.json/"}
ExcludedPathNames == {".a/dist/.b/"}

shouldExcludeFile(line) == LineHasName(line, ExcludedPathNames)
isPriorityFile(line) == LineHasName(line, PriorityPathNames)

\* line.trim() is empty
IsBlankLine(line) == \A i \in 1..Len(line) : IsSpace(line[i])

\* what the loop of intelligentTreeSummary does with a line
TreeLineClass(line) ==
    IF IsBlankLine(line) THEN "blank"
    ELSE IF TreeDepth(line) > LARGE_CODEBASE_CONFIG.maxDepthLevels THEN "deep"
    ELSE IF shouldExcludeFile(line) THEN "excluded"
    ELSE IF isPriorityFile(line) THEN "priority"
    ELSE "sampled"

MinFilesPerLevel == 50
FilesPerLevelBudget == 1000
MaxFilesPerLevel(level) == Max(MinFilesPerLevel, FilesPerLevelBudget \div (level + 1))

LevelHeaders ==
    <<"--- LEVEL 0 ---", "--- LEVEL 1 ---", "--- LEVEL 2 ---", "--- LEVEL 3 ---",
      "--- LEVEL 4 ---", "--- LEVEL 5 ---">>

\* the section of one depth level; levelFiles are the lines kept at it
LevelSection(level, levelFiles) ==
    IF levelFiles = <<>> THEN <<>>
    ELSE << <<W(LevelHeaders[level + 1], 15)>> >>
         \o SliceFirst(levelFiles, MaxFilesPerLevel(level))
         \o (IF Len(levelFiles) > MaxFilesPerLevel(level)
             THEN << <<W("... and more files at this level",
                          32 + Digits(Len(levelFiles) - MaxFilesPerLevel(level)))>> >>
             ELSE <<>>)
         \o << <<>> >>

RECURSIVE LevelSections(_, _)
LevelSections(level, filesAt) ==
    IF level > LARGE_CODEBASE_CONFIG.maxDepthLevels THEN <<>>
    ELSE LevelSection(level, filesAt[level]) \o LevelSections(level + 1, filesAt)

EstimatedLineBytes == 50

truncateToSize(content, maxSize) ==
    LET targetLines == maxSize \div EstimatedLineBytes
    IN  IF ByteLen(content) <= maxSize THEN content
        ELSE IF Len(content) <= targetLines THEN content
        ELSE SliceFirst(content, targetLines - 1)
             \o << <<P("["), W("TRUNCATED - Original had lines, showing first",
                                47 + Digits(Len(content)) + Digits(targetLines - 1)),
                     P("]")>> >>

\* intelligentTreeSummary; drawn is the set of line numbers for which
\* Math.random() came out below samplingRatio
intelligentTreeSummary(lines, drawn) ==
    LET class == [i \in 1..Len(lines) |-> TreeLineClass(lines[i])]
        kept == { i \in 1..Len(lines) :
                    class[i] = "priority" \/ (class[i] = "sampled" /\ i \in drawn) }
        Count(cs) == Cardinality({ i \in 1..Len(lines) : class[i] \in cs })
        totalFiles == Count({"deep", "excluded", "priority", "sampled"})
        sampledFiles == Cardinality({ i \in kept : class[i] = "sampled" })
        numbered == [i \in 1..Len(lines) |-> [i |-> i, line |-> lines[i]]]
        filesAt == [level \in 0..LARGE_CODEBASE_CONFIG.maxDepthLevels |->
                       LET at == SelectSeq(numbered, LAMBDA e :
                                     e.i \in kept /\ TreeDepth(e.line) = level)
                       IN  [k \in 1..Len(at) |-> at[k].line]]
        summary ==
            << <<P("["), W("GIANT CODEBASE SUMMARY - total files", 37 + Digits(totalFiles)),
                 P("]")>>,
               <<W("Important: , Sampled: , Excluded: ",
                   34 + Digits(Count({"priority"})) + Digits(sampledFiles)
                      + Digits(Count({"deep", "excluded"})))>>,
               <<>> >>
            \o LevelSections(0, filesAt)
    IN  IF ByteLen(summary) > LARGE_CODEBASE_CONFIG.maxCodebaseTreeSize
        THEN truncateToSize(summary, LARGE_CODEBASE_CONFIG.maxCodebaseTreeSize)
        ELSE summary

\* summarizeGiantCodebase(tree) with the default configuration, which samples
summarizeGiantCodebase(fullTree, drawn) == intelligentTreeSummary(fullTree, drawn)

\* boundedStringReducer(fieldName)(state, update) in a run where Math.random()
\* draws the lines in drawn
boundedStringReducerDrawing(fieldName, state, update, drawn) ==
    IF TakesGiantStrategy(DEFAULT_BOUNDED_STRING_CONFIG, update, fieldName)
    THEN extractContent(
             ProcessCompress(DEFAULT_BOUNDED_STRING_CONFIG,
                             summarizeGiantCodebase(update, drawn), fieldName,
                             ByteLen(update), TRUE))
    ELSE boundedStringReducer(fieldName, state, update)

\* the updates written to the field
ReplayLines ==
    {<<Glyph, Ws(1), W("a.ts", 4)>>,
     <<Glyph, Glyph, Ws(1), W("big.bin", 40 * 1024 * 1024)>>,
     <<Glyph, Ws(1), W(".cfg/package.json/", 18)>>,
     <<Glyph, Ws(1), W(".a/dist/.b/", 11)>>,
     <<Glyph, Glyph, Glyph, Glyph, Glyph, Glyph, Ws(1), W("deep.ts", 7)>>,
     <<>>}
ReplayUpdates == SeqsUpTo(ReplayLines, MaxTreeLines) \ {<<>>}

NewRun == [value |-> EmptyText, threw |-> FALSE]

ReplayInit ==
    /\ replayField \in FieldNames
    /\ requireAvailable \in BOOLEAN
    /\ runA = NewRun
    /\ runB = NewRun
    /\ writesDone = 0

ReplayIdle ==
    /\ replayField = "unknown"
    /\ requireAvailable = TRUE
    /\ runA = NewRun
    /\ runB = NewRun
    /\ writesDone = 0

\* both runs apply the same write; summarizeCodebaseTree calls require(),
\* which throws a ReferenceError where it does not exist
ReplayWrite(update) ==
    /\ writesDone < MaxWrites
    /\ ~runA.threw
    /\ writesDone' = writesDone + 1
    /\ IF TakesGiantStrategy(DEFAULT_BOUNDED_STRING_CONFIG, update, replayField)
          /\ ~requireAvailable
       THEN /\ runA' = [runA EXCEPT !.threw = TRUE]
            /\ runB' = [runB EXCEPT !.threw = TRUE]
       ELSE \E results \in { [drawn \in SUBSET (1..Len(update)) |->
                                 boundedStringReducerDrawing(replayField, runA.value,
                                                             update, drawn)] } :
                \E drawnA \in DOMAIN results, drawnB \in DOMAIN results :
                    /\ runA' = [runA EXCEPT !.value = results[drawnA]]
                    /\ runB' = [runB EXCEPT !.value = results[drawnB]]
    /\ UNCHANGED <<replayField, requireAvailable>>

DoReplayWrite == \E update \in ReplayUpdates : ReplayWrite(update)

\* ========================================================================
\* Specifications, one per component
\* ========================================================================
CacheNext ==
    \/ DoCacheSet /\ UNCHANGED <<msgVars, txtVars, ctxVars, monVars, serVars, replayVars>>
    \/ DoCacheGet /\ UNCHANGED <<msgVars, txtVars, ctxVars, monVars, serVars, replayVars>>
    \/ CacheClear /\ UNCHANGED <<msgVars, txtVars, ctxVars, monVars, serVars, replayVars>>
    \/ ClockTick /\ UNCHANGED <<msgVars, txtVars, ctxVars, monVars, serVars, replayVars>>

InitCache == CacheInit /\ MsgIdle /\ TxtIdle /\ CtxIdle /\ MonIdle /\ SerIdle /\ ReplayIdle

SpecCache == InitCache /\ [][CacheNext]_vars

LruNext ==
    \/ LruSet /\ UNCHANGED <<msgVars, txtVars, ctxVars, monVars, serVars, replayVars>>
    \/ LruGet /\ UNCHANGED <<msgVars, txtVars, ctxVars, monVars, serVars, replayVars>>
    \/ LruTick /\ UNCHANGED <<msgVars, txtVars, ctxVars, monVars, serVars, replayVars>>

InitLru == LruInit /\ MsgIdle /\ TxtIdle /\ CtxIdle /\ MonIdle /\ SerIdle /\ ReplayIdle

SpecCacheLru == InitLru /\ [][LruNext]_vars

MsgNext ==
    \/ DoEmitMessage /\ UNCHANGED <<cacheVars, txtVars, ctxVars, monVars, serVars, replayVars>>
    \/ Reduce /\ UNCHANGED <<cacheVars, txtVars, ctxVars, monVars, serVars, replayVars>>

InitMsg == MsgInit /\ CacheIdle /\ TxtIdle /\ CtxIdle /\ MonIdle /\ SerIdle /\ ReplayIdle

SpecMsg == InitMsg /\ [][MsgNext]_vars

DoTruncateAny == \E maxSize \in TruncateSizes, contentType \in ContentTypes :
    DoTruncate(maxSize, contentType)
DoProcessStringAny == \E cfg \in StringConfigs, fieldName \in FieldNames :
    DoProcessString(cfg, fieldName)

TxtNext ==
    \/ DoTruncateAny /\ UNCHANGED <<cacheVars, msgVars, ctxVars, monVars, serVars, replayVars>>
    \/ DoProcessStringAny /\ UNCHANGED <<cacheVars, msgVars, ctxVars, monVars, serVars, replayVars>>

InitText == TxtInit /\ CacheIdle /\ MsgIdle /\ CtxIdle /\ MonIdle /\ SerIdle /\ ReplayIdle

SpecText == InitText /\ [][TxtNext]_vars

CtxNext == DoAdaptPrompt /\ UNCHANGED <<cacheVars, msgVars, txtVars, monVars, serVars, replayVars>>

InitCtx == CtxInit /\ CacheIdle /\ MsgIdle /\ TxtIdle /\ MonIdle /\ SerIdle /\ ReplayIdle

SpecCtx == InitCtx /\ [][CtxNext]_vars

MonNext ==
    \/ MonitorStart /\ UNCHANGED <<cacheVars, msgVars, txtVars, ctxVars, serVars, replayVars>>
    \/ MonitorTick /\ UNCHANGED <<cacheVars, msgVars, txtVars, ctxVars, serVars, replayVars>>
    \/ MonitorStop /\ UNCHANGED <<cacheVars, msgVars, txtVars, ctxVars, serVars, replayVars>>

InitMon == MonInit /\ CacheIdle /\ MsgIdle /\ TxtIdle /\ CtxIdle /\ SerIdle /\ ReplayIdle

SpecMon == InitMon /\ [][MonNext]_vars

LongRunNext ==
    \/ LongRunStart /\ UNCHANGED <<cacheVars, msgVars, txtVars, ctxVars, serVars, replayVars>>
    \/ LongRunTick /\ UNCHANGED <<cacheVars, msgVars, txtVars, ctxVars, serVars, replayVars>>

InitLongRun == LongRunInit /\ CacheIdle /\ MsgIdle /\ TxtIdle /\ CtxIdle /\ SerIdle /\ ReplayIdle

SpecMonLongRun == InitLongRun /\ [][LongRunNext]_vars

ValidateNext ==
    DoValidate /\ UNCHANGED <<cacheVars, msgVars, ctxVars, monVars, serVars, replayVars>>

InitValidate ==
    ValidateInit /\ CacheIdle /\ MsgIdle /\ CtxIdle /\ MonIdle /\ SerIdle /\ ReplayIdle

SpecValidate == InitValidate /\ [][ValidateNext]_vars

GlobalNext ==
    \/ StartMemoryMonitoring /\ UNCHANGED <<cacheVars, msgVars, txtVars, ctxVars, serVars, replayVars>>
    \/ StopMemoryMonitoring /\ UNCHANGED <<cacheVars, msgVars, txtVars, ctxVars, serVars, replayVars>>
    \/ GlobalTick /\ UNCHANGED <<cacheVars, msgVars, txtVars, ctxVars, serVars, replayVars>>

InitGlobal == GlobalInit /\ CacheIdle /\ MsgIdle /\ TxtIdle /\ CtxIdle /\ SerIdle /\ ReplayIdle

SpecGlobalMonitor == InitGlobal /\ [][GlobalNext]_vars

OutputNext ==
    DoTruncateOutput /\ UNCHANGED <<cacheVars, msgVars, ctxVars, monVars, serVars, replayVars>>

InitOutput ==
    OutputInit /\ CacheIdle /\ MsgIdle /\ CtxIdle /\ MonIdle /\ SerIdle /\ ReplayIdle

SpecOutput == InitOutput /\ [][OutputNext]_vars

SerNext ==
    \/ Serialize /\ UNCHANGED <<cacheVars, msgVars, txtVars, ctxVars, monVars, replayVars>>
    \/ Deserialize /\ UNCHANGED <<cacheVars, msgVars, txtVars, ctxVars, monVars, replayVars>>

InitSer == SerInit /\ CacheIdle /\ MsgIdle /\ TxtIdle /\ CtxIdle /\ MonIdle /\ ReplayIdle

SpecSer == InitSer /\ [][SerNext]_vars

ReplayNext == DoReplayWrite /\ UNCHANGED <<cacheVars, msgVars, txtVars, ctxVars, monVars, serVars>>

InitReplay ==
    ReplayInit /\ CacheIdle /\ MsgIdle /\ TxtIdle /\ CtxIdle /\ MonIdle /\ SerIdle

SpecReplay == InitReplay /\ [][ReplayNext]_vars

\* ------------------------------------------------------------------------
\* C1: after any sequence of set / get / clear calls the sum of the byte
\* sizes of the entries actually stored in the cache is <= maxSizeBytes.
\* ------------------------------------------------------------------------
C1_StoredBytesWithinMax == StoredBytes(cache) <= cacheConfig.maxSizeBytes

\* ------------------------------------------------------------------------
\* C2: with maxEntries >= 1 the number of stored entries is <= maxEntries
\* after every set, for new keys and for overwrites.
\* ------------------------------------------------------------------------
C2_EntryCountWithinMax == Len(cache) <= cacheConfig.maxEntries

\* a set on a full cache that evicted and left the cache full again
C2_Witness ==
    /\ cacheOp.op = "set"
    /\ cacheOp.evicted >= 1
    /\ cacheConfig.maxEntries >= 2
    /\ Len(cache) = cacheConfig.maxEntries

\* ------------------------------------------------------------------------
\* C3: for every previous list, update and maxMessages >= 1, in both modes,
\* the list returned by reduceMessages has at most maxMessages messages.
\* ------------------------------------------------------------------------
C3_OutputWithinMaxMessages ==
    lastReduce.n > 0 => Len(lastReduce.out) <= msgConfig.maxMessages

\* ------------------------------------------------------------------------
\* C4: the total byte size of the messages returned by reduceMessages is
\* <= maxTotalSizeBytes, also when the count is within maxMessages.
\* ------------------------------------------------------------------------
C4_OutputWithinMaxBytes ==
    lastReduce.n > 0 =>
        calculateTotalSize(lastReduce.out) <= msgConfig.maxTotalSizeBytes

\* ------------------------------------------------------------------------
\* C9: when the reducer prunes, a human message is never evicted while a
\* message of lower importance is retained; with maxMessages = 3 the input
\* [human1, tool1, tool2, tool3, assistant1 with tool calls, tool4] gives
\* [human1, assistant1, tool4].
\* ------------------------------------------------------------------------
KindsOf(ms) == [i \in 1..Len(ms) |-> ms[i].kind]

C9_Scenario ==
    /\ msgConfig.maxMessages = 3
    /\ msgConfig.preserveImportantMessages
    /\ lastReduce.n > 0
    /\ KindsOf(lastReduce.merged) = <<"human", "tool", "tool", "tool", "ai", "tool">>

C9_HumanAlwaysKept ==
    /\ C9_Scenario =>
          lastReduce.out = <<lastReduce.merged[1], lastReduce.merged[5],
                             lastReduce.merged[6]>>
    /\ (lastReduce.n > 0 /\ msgConfig.preserveImportantMessages) =>
          \A i \in 1..Len(lastReduce.merged) :
             (lastReduce.merged[i].kind = "human"
              /\ ~HasId(lastReduce.out, lastReduce.merged[i].id))
             => \A j \in 1..Len(lastReduce.out) :
                   calculateMessageImportance(lastReduce.out[j]) >= 9

\* C5: the BoundedString that processString returns, and the string the
\* boundedStringReducer returns, are at most maxSizeBytes bytes, for every
\* input and field name, inputs of few very long lines included
C5_BoundedStringWithinMax ==
    boundedString.called =>
        /\ boundedString.res.currentSizeBytes <= boundedString.cfg.maxSizeBytes
        /\ ByteLen(boundedString.reduced) <= DEFAULT_BOUNDED_STRING_CONFIG.maxSizeBytes

\* C6: every result of truncate with truncated = true has finalSize <= maxSize,
\* whichever strategy produced it
C6_TruncatedWithinMaxSize ==
    (truncResult.called /\ truncResult.res.truncated) =>
        truncResult.res.finalSize <= truncResult.maxSize

\* the content type truncate() worked with in the last call
TruncatedAs ==
    IF truncResult.contentType # "" THEN truncResult.contentType
    ELSE detectContentType(txtInput)

\* C7: a result of a 'json' truncation with truncated = true and
\* syntaxValid = true has a content that JSON.parse accepts, for well-formed
\* and for malformed inputs
C7_TruncatedJSONParses ==
    (/\ truncResult.called
     /\ TruncatedAs = "json"
     /\ truncResult.res.truncated
     /\ truncResult.res.syntaxValid) => JSONParse(truncResult.res.content).ok

\* C8: for every memory pressure and every input list that contains a message
\* of role system, the first element of the list adaptPrompt returns is that
\* system message itself, also when it is not the first of the input.
SystemMessages == SelectSeq(ctxMessages, LAMBDA m : m.role = "system")
C8_SystemMessageFirst ==
    (ctxResult.called /\ SystemMessages # <<>>) =>
        /\ ctxResult.out # <<>>
        /\ ctxResult.out[1] = SystemMessages[1]

\* C10: in a sample tick with heap-used above its critical threshold and
\* external and array-buffers below their thresholds, exactly one critical
\* alert for heap-used is generated, garbage collection is requested exactly
\* once and no warning alert is generated.
LastSample == monitor.history[Len(monitor.history)]
TickAlerts == SelectSeq(monitor.alerts, LAMBDA a : a.timestamp = monClock)
TickGCCalls == SelectSeq(monitor.gcCalls, LAMBDA t : t = monClock)
HeapCriticalOnly ==
    /\ monitor.history # <<>>
    /\ ExceedsMB(LastSample.heapUsed, monitor.config.criticalThresholds.heapUsedMB)
    /\ ~ExceedsMB(LastSample.external, monitor.config.warningThresholds.externalMB)
    /\ ~ExceedsMB(LastSample.arrayBuffers, monitor.config.warningThresholds.arrayBuffersMB)
C10_OneCriticalOneGCNoWarning ==
    HeapCriticalOnly =>
        /\ Len(SelectSeq(TickAlerts, LAMBDA a : a.level = "critical")) = 1
        /\ \A i \in 1..Len(TickAlerts) :
               TickAlerts[i].level = "critical" => TickAlerts[i].metric = "heapUsed"
        /\ Len(TickGCCalls) = 1
        /\ \A i \in 1..Len(TickAlerts) : TickAlerts[i].level # "warning"

\* C11: in a sample tick where the value of a metric is exactly equal to its
\* critical threshold, one critical alert is generated for that metric and no
\* warning alert for it.
AlertMetrics == {"heapUsed", "external", "arrayBuffers"}
ThresholdKey(metric) ==
    CASE metric = "heapUsed" -> "heapUsedMB"
      [] metric = "external" -> "externalMB"
      [] metric = "arrayBuffers" -> "arrayBuffersMB"
AtCriticalThreshold(metric) ==
    /\ monitor.history # <<>>
    /\ LastSample[metric] = monitor.config.criticalThresholds[ThresholdKey(metric)] * KiBPerMB
TickAlertsFor(metric, level) ==
    SelectSeq(TickAlerts, LAMBDA a : a.metric = metric /\ a.level = level)
C11_AtCriticalOneCriticalNoWarning ==
    \A metric \in AlertMetrics :
        AtCriticalThreshold(metric) =>
            /\ Len(TickAlertsFor(metric, "critical")) = 1
            /\ TickAlertsFor(metric, "warning") = <<>>

\* C19: start on a running monitor is a no-op: it takes no sample and sets no
\* second interval, so a monitor never has more than one active timer.
C19_StartIsIdempotent ==
    /\ Cardinality(monitor.timers) <= 1
    /\ (monitor.lastCall.op = "start" /\ monitor.lastCall.wasRunning) =>
           /\ monClock = monitor.lastCall.clock
           /\ \A i \in 1..Len(monitor.history) :
                  monitor.history[i].timestamp <= monitor.lastCall.clock
C19_Witness ==
    /\ monitor.lastCall.op = "start" /\ monitor.lastCall.wasRunning
    /\ monitor.history # <<>>
    /\ monitor.timers # {}

\* C20: while the monitor is stopped, from the return of stop to the next
\* start, no sample is added to the history and no alert is generated.
C20_NoSampleWhileStopped ==
    [][(~monitor.isRunning /\ ~monitor'.isRunning) =>
           (monitor'.history = monitor.history /\ monitor'.alerts = monitor.alerts)]_vars
C20_Witness ==
    /\ monitor.lastCall.op = "stop" /\ monitor.lastCall.wasRunning
    /\ ~monitor.isRunning
    /\ monitor.alerts # <<>>
    /\ monClock < MaxTicks

\* C12: at a memory pressure of 0.90 or more adaptPrompt returns only the
\* system message, one summary and the last 3 non-system messages: at most 5
\* messages for any input length.
C12_EmergencyAtMostFive ==
    (ctxResult.called /\ getHeapUsagePercentage(ctxResult.mem) >= 90) =>
        Len(ctxResult.out) <= 5

\* C13: at a pressure in [0.60, 0.70) and with 100 input messages the output
\* consists of the system message, the old messages with ESSENTIAL tool calls,
\* one summary and the 70 most recent messages and of nothing else: its length
\* is at most 72 plus the number of ESSENTIAL old messages.
RecentQuota == getSummarizationThreshold(getHeapUsagePercentage(ctxResult.mem), Len(ctxMessages))
OldMessages == SliceButLast(ctxMessages, RecentQuota)
EssentialOld == SelectSeq(OldMessages, HasEssentialTool)
InFirstBand ==
    /\ getHeapUsagePercentage(ctxResult.mem) >= 60
    /\ getHeapUsagePercentage(ctxResult.mem) < 70
AllowedAtSeventy(m) ==
    \/ m = SummaryAsUser
    \/ \E i \in 1..Len(ctxMessages) :
           /\ ctxMessages[i] = m
           /\ \/ isSystemPrompt(m)
              \/ i > Len(ctxMessages) - 70
              \/ HasEssentialTool(m)
C13_SeventyRecentAndEssential ==
    (ctxResult.called /\ InFirstBand /\ Len(ctxMessages) = 100) =>
        /\ Len(ctxResult.out) <= 72 + Len(EssentialOld)
        /\ \A k \in 1..Len(ctxResult.out) : AllowedAtSeventy(ctxResult.out[k])

\* C14: adaptPrompt returns the input unchanged below a pressure of 0.60; at
\* or just above 0.60, with an input longer than the recent quota and an old
\* message that is not ESSENTIAL, the output is shorter than the input and
\* contains the synthesized summary.
HasSummary == \E k \in 1..Len(ctxResult.out) : ctxResult.out[k] = SummaryAsUser
C14_UnchangedBelowSummarizedFrom ==
    ctxResult.called =>
        /\ getHeapUsagePercentage(ctxResult.mem) < 60 => ctxResult.out = ctxMessages
        /\ (/\ InFirstBand
            /\ Len(ctxMessages) > RecentQuota
            /\ Len(EssentialOld) < Len(OldMessages))
           => (HasSummary /\ Len(ctxResult.out) < Len(ctxMessages))
C14_Witness ==
    /\ ctxResult.called
    /\ ctxResult.mem = [heapUsed |-> 6000, heapTotal |-> 5000]
    /\ Len(ctxMessages) > RecentQuota
    /\ Len(EssentialOld) < Len(OldMessages)
    /\ HasSummary
\* C14 as stated: a summary whenever the input is longer than the recent quota
C14_SummaryWheneverLonger ==
    ctxResult.called =>
        /\ getHeapUsagePercentage(ctxResult.mem) < 60 => ctxResult.out = ctxMessages
        /\ (InFirstBand /\ Len(ctxMessages) > RecentQuota) => HasSummary

\* C15: a reduceMessages call whose merged list has exactly maxMessages
\* messages within the byte bound returns all of them, and one whose merged
\* list has maxMessages + 1 messages returns exactly maxMessages messages.
C15_ExactAtAndAboveMaxMessages ==
    lastReduce.n > 0 =>
        /\ (/\ Len(lastReduce.merged) = msgConfig.maxMessages
            /\ calculateTotalSize(lastReduce.merged) <= msgConfig.maxTotalSizeBytes)
           => lastReduce.out = lastReduce.merged
        /\ Len(lastReduce.merged) = msgConfig.maxMessages + 1
           => Len(lastReduce.out) = msgConfig.maxMessages

\* ------------------------------------------------------------------------
\* BoundedDocumentCache: which entries a set evicts
\* ------------------------------------------------------------------------
\* x comes strictly before y in the order (lastAccessed, then accessCount)
Precedes(x, y) ==
    \/ x.lastAccessed < y.lastAccessed
    \/ x.lastAccessed = y.lastAccessed /\ x.accessCount < y.accessCount

\* the step is a set call that stored its entry
SetStep == cacheOp'.op = "set" /\ now' = now

\* the entries of the cache before the step that the step's eviction deleted:
\* the keys that are gone, and the overwritten key when the count says so
GoneEntries ==
    { i \in 1..Len(cache) : cache[i].url # cacheOp'.url /\ ~CacheHas(cache', cache[i].url) }
EvictedEntries ==
    GoneEntries \cup
        (IF cacheOp'.overwrite /\ cacheOp'.evicted = Cardinality(GoneEntries) + 1
         THEN {CacheIndex(cache, cacheOp'.url)} ELSE {})
KeptEntries == (1..Len(cache)) \ EvictedEntries

\* a, b, c of 100 bytes each were inserted in this order and a was read
AfterABCThenReadA ==
    /\ cacheConfig.maxSizeBytes = 300
    /\ currentSizeBytes = 300
    /\ [i \in 1..Len(cache) |-> cache[i].url] = <<"a", "b", "c">>
    /\ \A i \in 1..3 : cache[i].sizeBytes = 100
    /\ [i \in 1..3 |-> cache[i].accessCount] = <<2, 1, 1>>
    /\ cache[2].lastAccessed <= cache[3].lastAccessed
    /\ cache[3].lastAccessed <= cache[1].lastAccessed

CacheKeys(c) == { c[i].url : i \in 1..Len(c) }

\* C16: the entries a set evicts are the first ones in the order
\* (lastAccessed ascending, then accessCount ascending): no entry that stays
\* comes before an evicted one; and after a, b, c of 100 bytes, a read of a
\* and an insert of d of 100 bytes into a cache of 300 bytes, the cache
\* holds exactly a, c and d, on one clock tick or on several.
C16_EvictsFirstInLRUOrder ==
    [][SetStep =>
          /\ cacheOp'.evicted = Cardinality(EvictedEntries)
          /\ \A e \in EvictedEntries, k \in KeptEntries : ~Precedes(cache[k], cache[e])
          /\ (/\ AfterABCThenReadA
              /\ cacheOp'.url = "d"
              /\ cache'[CacheIndex(cache', "d")].sizeBytes = 100)
             => CacheKeys(cache') = {"a", "c", "d"}]_vars

\* d was inserted on the tick on which a, b, c were inserted and a was read
C16_Witness ==
    /\ cacheOp = [op |-> "set", url |-> "d", evicted |-> 1, overwrite |-> FALSE,
                  tracked |-> 300]
    /\ [i \in 1..Len(cache) |-> cache[i].url] = <<"a", "c", "d">>
    /\ [i \in 1..Len(cache) |-> cache[i].accessCount] = <<2, 1, 1>>
    /\ \A i \in 1..Len(cache) : cache[i].lastAccessed = now /\ cache[i].sizeBytes = 100

\* the step inserts a new key into a cache below maxEntries
NewKeyStep == SetStep /\ ~cacheOp'.overwrite /\ Len(cache) < cacheConfig.maxEntries
NewEntrySize == cache'[CacheIndex(cache', cacheOp'.url)].sizeBytes
EvictedBytes(E) == SumSeq([i \in 1..Len(cache) |-> IF i \in E THEN cache[i].sizeBytes ELSE 0])
Fits(E) == currentSizeBytes - EvictedBytes(E) + NewEntrySize <= cacheConfig.maxSizeBytes

\* C17: a new key below maxEntries evicts nothing when currentSizeBytes plus
\* the new size is exactly maxSizeBytes; when it is maxSizeBytes + 1 exactly
\* one entry goes, one that no kept entry precedes; and in every case the
\* eviction stops as soon as the entry fits (without the last evicted entry
\* it would not fit).
C17_ExactFitKeepsAllOneOverEvictsLeast ==
    [][NewKeyStep =>
          /\ currentSizeBytes + NewEntrySize = cacheConfig.maxSizeBytes
             => (cacheOp'.evicted = 0 /\ GoneEntries = {})
          /\ currentSizeBytes + NewEntrySize = cacheConfig.maxSizeBytes + 1
             => /\ cacheOp'.evicted = 1
                /\ Cardinality(GoneEntries) = 1
                /\ \A e \in GoneEntries, k \in KeptEntries : ~Precedes(cache[k], cache[e])
          /\ Fits(GoneEntries)
          /\ GoneEntries # {} =>
                 \E e \in GoneEntries :
                     /\ \A o \in GoneEntries : ~Precedes(cache[e], cache[o])
                     /\ ~Fits(GoneEntries \ {e})]_vars

\* an insert of 101 bytes into a cache tracking 200 of its 300 bytes evicted
\* one entry
C17_Witness ==
    /\ cacheOp.op = "set"
    /\ ~cacheOp.overwrite
    /\ cacheOp.tracked = 200
    /\ cacheOp.evicted = 1
    /\ cacheConfig.maxSizeBytes = 300
    /\ cache[CacheIndex(cache, cacheOp.url)].sizeBytes = 101
    /\ Len(cache) = 2

\* ------------------------------------------------------------------------
\* SmartSerializer round trip
\* ------------------------------------------------------------------------
\* serialize takes neither the truncating nor the compressing branch
SmallEnough(cfg, data) ==
    /\ ~HasBigInt(data)
    /\ SerByteLength(JSONStringify(data)) <= cfg.maxSizeBytes
    /\ ~(SerByteLength(JSONStringify(data)) > cfg.compressionThreshold
         /\ cfg.enableCompression)

\* C18: for data small enough to be neither compressed nor truncated,
\* deserialize(serialize(x)) completes without an error and returns a value
\* structurally equal to x.
C18_SmallDataRoundTrips ==
    (deserialized.called /\ SmallEnough(serConfig, serData)) =>
        (deserialized.ok /\ deserialized.value = serData)

\* ------------------------------------------------------------------------
\* StreamingMessageManager: empty updates, the first system message, and
\* the shape of the importance window
\* ------------------------------------------------------------------------
\* the step is a reduceMessages call (an emitted message takes a fresh id)
ReduceStep == pending' = <<>> /\ nextMsgId' = nextMsgId

\* C21: for every list S the reducer has produced (and the empty list it
\* starts from), reduceMessages(S, []) is S: the same messages in the same
\* order.
C21_EmptyUpdateReturnsSame ==
    [][(ReduceStep /\ pending = <<>>) => messages' = messages]_vars

\* an empty update was reduced into a list that is outside the bounds, so
\* that the sliding window ran on it
C21_Witness ==
    /\ lastReduce.n > 0
    /\ lastReduce.update = <<>>
    /\ Len(lastReduce.merged) >= 2
    /\ ~WithinBounds(msgConfig, lastReduce.merged)
    /\ messages = lastReduce.merged

\* ------------------------------------------------------------------------
\* C22: two runs that apply the same sequence of writes to a field end in
\* identical field values (the reducer is a pure function of its update and
\* field name), also for a codebaseTree large enough to be summarized.
\* ------------------------------------------------------------------------
C22_ReplayGivesSameValue == runA = runB

\* ------------------------------------------------------------------------
\* C23: after any sequence of set / get / clear calls the tracked total
\* (getStats().totalSizeBytes) is the sum of the sizes of the stored entries
\* and is never negative.
\* ------------------------------------------------------------------------
C23_TrackedTotalIsStoredSum ==
    /\ currentSizeBytes = StoredBytes(cache)
    /\ currentSizeBytes >= 0

\* ------------------------------------------------------------------------
\* C24: a set whose content is larger than 0.8 * maxSizeBytes is rejected:
\* no entry of that size is ever stored, and the rejected call leaves the
\* keys, contents, sizes, lastAccessed, accessCount and the tracked total as
\* they were.
\* ------------------------------------------------------------------------
RejectedStep == cacheOp'.op = "rejected" /\ now' = now

C24_RejectedSetChangesNothing ==
    /\ [](\A i \in 1..Len(cache) : 10 * cache[i].sizeBytes <= 8 * cacheConfig.maxSizeBytes)
    /\ [][RejectedStep => (cache' = cache /\ currentSizeBytes' = currentSizeBytes)]_vars

\* an overwrite was rejected and the key still holds its old entry
C24_Witness ==
    /\ cacheOp.op = "rejected"
    /\ cacheOp.overwrite
    /\ CacheHas(cache, cacheOp.url)
    /\ Len(cache) >= 2
    /\ cacheOp.tracked = currentSizeBytes

\* ------------------------------------------------------------------------
\* C25: at a memory pressure of 0.60 or more the list adaptPrompt returns is
\* strictly shorter than the input, or it is the emergency list (the system
\* prompt if any, the summary if one was created, the last 3 recent
\* non-system messages at most) and has at most 5 messages.
\* ------------------------------------------------------------------------
RecentNonSystem ==
    SelectSeq(SliceLast(ctxMessages, RecentQuota), LAMBDA m : ~isSystemPrompt(m))

IsEmergencyList(out) ==
    /\ Len(out) <= 5
    /\ \E summary \in {<<>>, <<SummaryAsUser>>} :
           out = FindSystemPrompt(ctxMessages) \o summary
                     \o SliceLast(RecentNonSystem, EmergencyKeep)

C25_ShorterOrEmergency ==
    (ctxResult.called /\ getHeapUsagePercentage(ctxResult.mem) >= 60) =>
        \/ Len(ctxResult.out) < Len(ctxMessages)
        \/ IsEmergencyList(ctxResult.out)

\* the summarization of a 16-message input did not shorten it and the
\* emergency list was returned
C25_Witness ==
    /\ ctxResult.called
    /\ getHeapUsagePercentage(ctxResult.mem) >= 60
    /\ Len(ctxMessages) >= 16
    /\ Len(FindSystemPrompt(ctxMessages) \o OldPart(OldMessages) \o RecentNonSystem)
           >= Len(ctxMessages)
    /\ IsEmergencyList(ctxResult.out)
    /\ HasSummary

\* ------------------------------------------------------------------------
\* C26: at a memory pressure of 0.60 or more every input message that
\* carries a tool call classified ESSENTIAL is in the list adaptPrompt
\* returns, as the same unmodified message, also when the emergency
\* fallback is taken.
\* ------------------------------------------------------------------------
C26_EssentialKeptVerbatim ==
    (ctxResult.called /\ getHeapUsagePercentage(ctxResult.mem) >= 60) =>
        \A i \in 1..Len(ctxMessages) :
            HasEssentialTool(ctxMessages[i]) =>
                \E k \in 1..Len(ctxResult.out) : ctxResult.out[k] = ctxMessages[i]

\* ------------------------------------------------------------------------
\* C27: the role of the summary message adaptPrompt synthesizes follows the
\* format of the target provider: user for anthropic and google-genai, which
\* allow a single system message, system for openai, which allows several.
\* ------------------------------------------------------------------------
SynthesizedMessages ==
    SelectSeq(ctxResult.out,
              LAMBDA m : \A i \in 1..Len(ctxMessages) : ctxMessages[i] # m)

C27_SummaryRoleFollowsProvider ==
    ctxResult.called =>
        \A k \in 1..Len(SynthesizedMessages) :
            SynthesizedMessages[k].role =
                PROVIDER_MESSAGE_FORMATS[ctxResult.provider].summaryMessageType

\* ------------------------------------------------------------------------
\* C28: the streaming reducer never drops the first system-kind message:
\* when the merged list of a reduceMessages call contains a system message,
\* the list the call returns contains the first one.
\* ------------------------------------------------------------------------
SystemMessagesOf(ms) == SelectSeq(ms, LAMBDA m : m.kind = "system")

C28_FirstSystemMessageKept ==
    (lastReduce.n > 0 /\ SystemMessagesOf(lastReduce.merged) # <<>>) =>
        \E k \in 1..Len(lastReduce.out) :
            lastReduce.out[k] = SystemMessagesOf(lastReduce.merged)[1]

\* ------------------------------------------------------------------------
\* C29: a reduceMessages call that prunes in importance mode returns exactly
\* the last R = floor(0.70 * maxMessages) messages of importance < 7 and the
\* last I = maxMessages - R messages of importance >= 7, in their original
\* relative order: nothing is added, duplicated or reordered.
\* ------------------------------------------------------------------------
PrunedInImportanceMode ==
    /\ lastReduce.n > 0
    /\ msgConfig.preserveImportantMessages
    /\ ~WithinBounds(msgConfig, lastReduce.merged)

\* the last n elements of s, none for n = 0
LastN(s, n) == SubSeq(s, Max(1, Len(s) - n + 1), Len(s))

LastRegular ==
    LastN(SelectSeq(lastReduce.merged, LAMBDA m : ~IsImportant(m)),
          (7 * msgConfig.maxMessages) \div 10)
LastImportant ==
    LastN(SelectSeq(lastReduce.merged, IsImportant),
          msgConfig.maxMessages - (7 * msgConfig.maxMessages) \div 10)
InSeq(s, m) == \E i \in 1..Len(s) : s[i] = m

C29_ImportanceWindowExact ==
    PrunedInImportanceMode =>
        lastReduce.out =
            SelectSeq(lastReduce.merged,
                      LAMBDA m : InSeq(LastRegular, m) \/ InSeq(LastImportant, m))

\* ------------------------------------------------------------------------
\* C30: whatever configuration the MemoryMonitor was given, each metric's
\* warning threshold in effect while the monitor runs is strictly below its
\* critical threshold: a configuration with warning >= critical is replaced
\* by the defaults when the monitor starts.
\* ------------------------------------------------------------------------
ThresholdKeys == {"heapUsedMB", "externalMB", "arrayBuffersMB"}

C30_WarningBelowCriticalWhileRunning ==
    monitor.isRunning =>
        \A key \in ThresholdKeys :
            monitor.config.warningThresholds[key] < monitor.config.criticalThresholds[key]

\* ------------------------------------------------------------------------
\* C31: after any number of sample ticks the history holds at most
\* maxHistoryEntries samples and the alert list at most 50 alerts; the
\* oldest go first, so both hold the most recent items in arrival order.
\* ------------------------------------------------------------------------
\* the alerts generated by the sample taken at time t
AlertsAt(alertList, t) == SelectSeq(alertList, LAMBDA a : a.timestamp = t)

SampleStep == monClock' = monClock + 1

C31_HistoryAndAlertsBounded ==
    /\ [](/\ Len(monitor.history) <= monitor.config.maxHistoryEntries
          /\ Len(monitor.alerts) <= 50)
    /\ [][SampleStep =>
            /\ monitor'.history # <<>>
            /\ monitor'.history[Len(monitor'.history)].timestamp = monClock'
            /\ monitor'.history =
                   LastN(Append(monitor.history,
                                monitor'.history[Len(monitor'.history)]),
                         monitor.config.maxHistoryEntries)
            /\ monitor'.alerts =
                   LastN(monitor.alerts \o AlertsAt(monitor'.alerts, monClock'), 50)]_vars

\* the alert list is full and its oldest alerts have been dropped
C31_Witness ==
    /\ Len(monitor.alerts) = 50
    /\ monitor.alerts[1].timestamp > 1
    /\ Len(monitor.history) = monitor.config.maxHistoryEntries
    /\ monitor.history[1].timestamp > 1

\* ------------------------------------------------------------------------
\* C32: validateAndFix returns valid = true and no fixedContent for a text
\* that parses as JSON; for any other text it returns a fixedContent that
\* parses, produced by the first of the five repairs (trailing commas,
\* unquoted keys, braces and brackets, unterminated string, minimal
\* skeleton) whose result parses.
\* ------------------------------------------------------------------------
RepairOf(i, content) ==
    CASE i = 1 -> fixTrailingCommas(content)
      [] i = 2 -> fixMissingQuotes(content)
      [] i = 3 -> fixUnbalancedBraces(content)
      [] i = 4 -> fixTruncatedString(content)
      [] OTHER -> createMinimalValidJSON(content)

C32_ValidOrFirstParsingRepair ==
    validated.called =>
        IF JSONParse(txtInput).ok
        THEN validated.res.valid /\ ~validated.res.hasFixed
        ELSE /\ validated.res.hasFixed
             /\ JSONParse(validated.res.fixedContent).ok
             /\ \E i \in 1..5 :
                    /\ validated.res.repair = RepairNames[i]
                    /\ validated.res.fixedContent = RepairOf(i, txtInput)
                    /\ \A j \in 1..(i - 1) : ~JSONParse(RepairOf(j, txtInput)).ok

\* a text that neither parses nor is repaired by the first two repairs
C32_Witness ==
    /\ validated.called
    /\ ~JSONParse(txtInput).ok
    /\ validated.res.repair = "fixUnbalancedBraces"
    /\ JSONParse(validated.res.fixedContent).ok

\* ------------------------------------------------------------------------
\* C33: truncate with content type 'json' on a text that does not parse
\* reports syntaxValid = false and method 'safe-json-fallback', and its
\* content is the raw input cut down by the generic strategy.
\* ------------------------------------------------------------------------
UnparsableJSONTruncated ==
    /\ truncResult.called
    /\ truncResult.contentType = "json"
    /\ ~JSONParse(txtInput).ok
    /\ ByteLen(txtInput) > truncResult.maxSize

C33_UnparsableJSONFallsBack ==
    UnparsableJSONTruncated =>
        /\ ~truncResult.res.syntaxValid
        /\ truncResult.res.truncationMethod = "safe-json-fallback"
        /\ truncResult.res.content = truncateGeneric(txtInput, truncResult.maxSize).content

\* ------------------------------------------------------------------------
\* C34: after any interleaving of startMemoryMonitoring and
\* stopMemoryMonitoring calls at most one of the monitors they created has
\* an active sampling timer, and it is the one getMemoryMonitor returns; a
\* monitor that a later startMemoryMonitoring replaces is stopped first.
\* ------------------------------------------------------------------------
WithActiveTimer ==
    { k \in 1..Len(globalMonitoring.created) : globalMonitoring.created[k].timers # {} }

C34_OneActiveGlobalMonitor ==
    /\ Cardinality(WithActiveTimer) <= 1
    /\ \A k \in WithActiveTimer : k = getMemoryMonitor(globalMonitoring)
    /\ \A k \in 1..Len(globalMonitoring.created) :
           k # getMemoryMonitor(globalMonitoring) => ~globalMonitoring.created[k].isRunning

\* a running monitor was replaced: it is stopped, the new one samples
C34_Witness ==
    /\ Len(globalMonitoring.created) >= 2
    /\ globalMonitoring.created[1].history # <<>>
    /\ globalMonitoring.created[1].timers = {}
    /\ getMemoryMonitor(globalMonitoring) = Len(globalMonitoring.created)
    /\ Len(globalMonitoring.created[getMemoryMonitor(globalMonitoring)].history) >= 2

\* ------------------------------------------------------------------------
\* C35: truncation never makes content larger: for every content, maxSize
\* and content type the result of truncate has finalSize <= originalSize,
\* also with a budget so small that the generic strategy keeps 0 head lines
\* and 0 tail lines.
\* ------------------------------------------------------------------------
C35_TruncateNeverGrows ==
    truncResult.called =>
        /\ truncResult.res.originalSize = ByteLen(txtInput)
        /\ truncResult.res.finalSize <= truncResult.res.originalSize

\* ------------------------------------------------------------------------
\* C36: whenever the list adaptPrompt returns omits a non-system input
\* message, it contains a synthesized summary; a conversation of 15 or
\* fewer messages at a pressure of 0.60 or more is not cut down to its last
\* 3 messages without a summary.
\* ------------------------------------------------------------------------
OmittedNonSystem ==
    { i \in 1..Len(ctxMessages) :
        /\ ~isSystemPrompt(ctxMessages[i])
        /\ \A k \in 1..Len(ctxResult.out) : ctxResult.out[k] # ctxMessages[i] }

C36_OmissionComesWithSummary ==
    (ctxResult.called /\ OmittedNonSystem # {}) => HasSummary

\* ------------------------------------------------------------------------
\* C37: the input messages adaptPrompt retains, other than the system
\* prompt, are in the output in the same relative order as in the input,
\* old messages kept as ESSENTIAL and old messages kept as the last code
\* generations included.
\* ------------------------------------------------------------------------
\* a message object of the input carries its position as id, a synthesized
\* message has id 0; the retained input messages without the system prompt
RetainedNonSystem(out, systemPrompt) ==
    SelectSeq(out, LAMBDA m : m.id # 0 /\ <<m>> # systemPrompt)

InInputOrder(kept) ==
    /\ \A k \in 1..Len(kept) : ctxMessages[kept[k].id] = kept[k]
    /\ \A k \in 1..(Len(kept) - 1) : kept[k].id < kept[k + 1].id

C37_RetainedInInputOrder ==
    ctxResult.called =>
        \A systemPrompt \in {FindSystemPrompt(ctxMessages)} :
            \A kept \in {RetainedNonSystem(ctxResult.out, systemPrompt)} :
                InInputOrder(kept)

\* ------------------------------------------------------------------------
\* C38: overwriting an existing key with content that fits in the byte
\* budget leaves every other entry of the cache in place, also when the
\* cache already holds exactly maxEntries entries.
\* ------------------------------------------------------------------------
OverwriteStep == SetStep /\ cacheOp'.overwrite

\* the stored bytes with the key's old entry replaced by the new one
BytesAfterOverwrite ==
    StoredBytes(cache) - cache[CacheIndex(cache, cacheOp'.url)].sizeBytes + NewEntrySize

C38_OverwriteKeepsOtherEntries ==
    [][(OverwriteStep /\ BytesAfterOverwrite <= cacheConfig.maxSizeBytes)
          => GoneEntries = {}]_vars

\* ------------------------------------------------------------------------
\* C39: truncateOutput with finite limits and an output longer than
\* numStartCharacters + numEndCharacters returns a text that has, after the
\* notice, only the first numStartCharacters and the last numEndCharacters
\* characters of the output, also when numEndCharacters is 0.
\* ------------------------------------------------------------------------
LongerThanFiniteLimits ==
    /\ outputCall.called
    /\ ~outputCall.numStartCharacters.infinite
    /\ ~outputCall.numEndCharacters.infinite
    /\ outputCall.numStartCharacters.n >= 0
    /\ outputCall.numEndCharacters.n >= 0
    /\ outputCall.numStartCharacters.n + outputCall.numEndCharacters.n > 0
    /\ Len(outputCall.output) >
           outputCall.numStartCharacters.n + outputCall.numEndCharacters.n

ReturnedChars == SelectSeq(outputCall.res.text, LAMBDA x : x.t = "char")

C39_OnlyHeadAndTailReturned ==
    LongerThanFiniteLimits =>
        /\ ~outputCall.res.threw
        /\ outputCall.res.text[1].t = "notice"
        /\ ReturnedChars =
               SubSeq(outputCall.output, 1, outputCall.numStartCharacters.n)
               \o SubSeq(outputCall.output,
                         Len(outputCall.output) - outputCall.numEndCharacters.n + 1,
                         Len(outputCall.output))

\* ------------------------------------------------------------------------
\* C40: after any sequence of reduceMessages calls the metadata map has
\* entries only for messages still retained in the reduced list, so its
\* size never exceeds maxMessages.
\* ------------------------------------------------------------------------
RetainedIds == { messages[i].id : i \in 1..Len(messages) }

C40_MetadataOnlyForRetained ==
    /\ messageMetadata \subseteq RetainedIds
    /\ Cardinality(messageMetadata) <= msgConfig.maxMessages

====
